---- MODULE Spec2Model ----
(***************************************************************************)
(* Model of the per-channel message queue of letta-bot.                    *)
(*                                                                         *)
(* Spec      : the typing-aware, no-interrupt MessageQueue of one chat     *)
(*             channel together with the MessageQueueManager typing state  *)
(*             of that channel (src/src/messageQueue.ts lines 33-644),     *)
(*             with discrete time.  One tick of the clock is 1000 ms.      *)
(* SpecFair  : Spec with the fairness the event loop gives: armed timers   *)
(*             fire, immediates run, started backend calls complete.       *)
(* SpecAbort : the abort-and-rebatch MessageQueue of one chat channel      *)
(*             (src/src/messageQueue.ts lines 718-1195), untimed.          *)
(* SpecManager : the MessageQueueManager with the queues of two chat      *)
(*             channels and the "__system__" queue (lines 33-644), untimed, *)
(*             with LETTA_AGENT_ID set or not.                             *)
(***************************************************************************)
EXTENDS Integers, Sequences, FiniteSets, TLC

\* ---- bounds of the model ----
MaxReqs == 2
NumUsers == 1
MaxTypers == 2
\* requests of the abort-and-rebatch queues
MaxReqsAbort == 3
\* processStream: characters of a text, parts of an array content, chunks of a
\* stream; processBatch: requests of a batch
MaxText == 2
MaxParts == 2
MaxChunks == 2
\* chunks of a stream whose side effects or iteration can fail
MaxFaultChunks == 3
\* truncateMessage: characters of a message
MaxMessage == 104
\* getOrCreateConversation: calls
MaxCallers == 3
\* heartbeat timeouts that fire
MaxFirings == 3
\* TypingStart events
MaxTypingEvents == 3
MaxBatch == 3

\* ---- program constants, in ticks of 1000 ms ----
\* All three are read from the environment (messageQueue.ts lines 24-26).
\* BATCH_DELAY_MS and TYPING_PAUSE_DELAY_MS have their default values; the
\* model is of a deployment with INITIAL_REQUEST_DELAY_MS=6000 (default 30000).
INITIAL_REQUEST_DELAY_MS == 6
BATCH_DELAY_MS == 1
TYPING_PAUSE_DELAY_MS == 2

NULL == -1
Infinity == 1000000

Reqs == 1..(IF MaxReqs > MaxReqsAbort THEN MaxReqs ELSE MaxReqsAbort)
Users == 1..NumUsers

VARIABLES
  queueExists,        \* MessageQueueManager.queues has the channel
  typingStateExists,  \* MessageQueueManager.typingStates has the channel
  users,              \* TypingState.users
  lastTypingStop,     \* ticks since TypingState.lastTypingStop; NULL when it is 0
  queue,              \* MessageQueue.queue
  processing,         \* MessageQueue.processing
  messageBuffer,      \* MessageQueue.messageBuffer
  batchTimer,         \* MessageQueue.batchTimer is non-null
  batchTimeouts,      \* pending timeouts created for the batch timer
  initialDelayTimer,  \* ticks left of MessageQueue.initialDelayTimer, or NULL
  typingPauseTimer,   \* ticks left of MessageQueue.typingPauseTimer, or NULL
  emergencyTimer,     \* ticks left of MessageQueue.emergencyTimer, or NULL
  isTypingActive,     \* MessageQueue.isTypingActive
  immediates,         \* callbacks scheduled with setImmediate, in order
  calls,              \* backend calls started and not yet settled, in order
  currentAbortController, \* abort variant: the controller field is non-null
  enqueued,           \* number of requests enqueued so far
  messageType,        \* QueuedMessage.messageType of each request
  settled,            \* per request: the resolve / reject invocations, in order
  rebatched,          \* abort variant: requests put back after a cancellation
  sinceArrival,       \* ticks since the most recent chat arrival (saturating)
  burst,              \* the requests of the current undisturbed burst, in order
  queues,             \* MessageQueueManager.queues, by channel id
  typingStates,       \* MessageQueueManager.typingStates, by channel id
  AGENT_ID,           \* process.env.LETTA_AGENT_ID is set
  event,              \* what each request carries: chat message, timer, member join
  notified,           \* the latest onTypingStart / onTypingStop call of the channel
  stream,             \* processStream: the chunks of the backend stream (response)
  chunksRead,         \* processStream: the chunks the loop has handled
  agentMessageResponse, \* processStream: the text accumulated so far
  status,             \* the Discord status set by a set_status tool call
  streamResult,       \* processStream: what it has returned
  batch,              \* processBatch: the drained requests (messages), in buffer order
  formatted,          \* processBatch: the requests the loop has handled
  messageContents,    \* processBatch: the formatted texts pushed so far
  combinedContent,    \* processBatch: the payload built and whether it is sent
  truncation,         \* truncateMessage: its argument and what it has returned
  conversationMappings, \* conversationMappings.ts: mappings, and the calls under way
  eventTimer,         \* eventTimer.ts: the timeouts of startRandomEventTimer and its callback
  typingTimeouts      \* index.ts: typingTimeouts, by channel and user

vars == <<queueExists, typingStateExists, users, lastTypingStop, queue,
          processing, messageBuffer, batchTimer, batchTimeouts,
          initialDelayTimer, typingPauseTimer, emergencyTimer, isTypingActive,
          immediates, calls, currentAbortController, enqueued, messageType,
          settled, rebatched, sinceArrival, burst,
          queues, typingStates, AGENT_ID, event, notified,
          stream, chunksRead, agentMessageResponse, status, streamResult,
          batch, formatted, messageContents, combinedContent,
          truncation, conversationMappings, eventTimer, typingTimeouts>>

\* the state of truncateMessage, of getOrCreateConversation, of the heartbeat
\* timer and of the TypingStart handler, which the other models leave at rest
utilVars == <<truncation, conversationMappings, eventTimer, typingTimeouts>>

\* the state of one run of processStream and of one run of processBatch,
\* which the queue and manager models leave at rest
pureVars ==
  <<stream, chunksRead, agentMessageResponse, status, streamResult,
    batch, formatted, messageContents, combinedContent, utilVars>>

\* the state of the manager and of the queues it holds, and the record of the
\* latest typing call, which only onTypingStart / onTypingStop write
managerVars == <<queues, typingStates, AGENT_ID, event, notified, pureVars>>

\* ---- sequences ----
Range(s) == {s[i] : i \in DOMAIN s}

RemoveAt(s, i) == SubSeq(s, 1, i - 1) \o SubSeq(s, i + 1, Len(s))

Last(s) == s[Len(s)]

Max(a, b) == IF a > b THEN a ELSE b

Min(a, b) == IF a < b THEN a ELSE b

\* ---- MessageQueueManager: typing queries ----
IsChannelTyping == typingStateExists /\ users # {}

GetTimeSinceLastTypingStop ==
  IF typingStateExists /\ lastTypingStop # NULL THEN lastTypingStop ELSE Infinity

ShouldWaitForTypingPause ==
  IF IsChannelTyping THEN TRUE
  ELSE GetTimeSinceLastTypingStop < TYPING_PAUSE_DELAY_MS

\* ---- MessageQueue: timers ----
EmergencyMaxWaitTime == Max(BATCH_DELAY_MS, TYPING_PAUSE_DELAY_MS) * 2

\* clearTimeout(this.batchTimer): the timeout the field refers to is cancelled
ClearBatchTimeout(tos) == SelectSeq(tos, LAMBDA t : ~t.cur)

\* this.batchTimer is overwritten or set to null: no timeout is referred to
ForgetBatchTimeout(tos) == [i \in DOMAIN tos |-> [tos[i] EXCEPT !.cur = FALSE]]

NewBatchTimeout(delay, isInner) == [rem |-> delay, inner |-> isInner, cur |-> TRUE]

\* ---- MessageQueue.processBatchedMessages, up to the await ----
NewCall(msgs, k) ==
  [msgs |-> msgs, kind |-> k, stage |-> "backend", ctl |-> FALSE, aborted |-> FALSE]

\* the mutant of DrainedBuffer that forgets to empty the buffer
DrainedBufferKept(buf) == buf

\* this.messageBuffer = [] after the copy into messages
DrainedBuffer(buf) == << >>

\* tos, em: the batch timeouts and the emergency timer as the caller left them
ProcessBatchedMessages(tos, bt, em) ==
  IF messageBuffer = << >>
  THEN /\ batchTimeouts' = tos
       /\ batchTimer' = bt
       /\ emergencyTimer' = em
       /\ UNCHANGED <<processing, messageBuffer, calls>>
  ELSE /\ processing' = TRUE
       /\ calls' = Append(calls, NewCall(messageBuffer, "batch"))
       /\ messageBuffer' = DrainedBuffer(messageBuffer)
       /\ batchTimer' = FALSE
       /\ batchTimeouts' = ForgetBatchTimeout(tos)
       /\ emergencyTimer' = NULL

\* ---- MessageQueue.processNext, up to the await ----
ProcessNext ==
  IF processing \/ queue = << >>
  THEN UNCHANGED <<processing, queue, calls>>
  ELSE /\ processing' = TRUE
       /\ queue' = Tail(queue)
       /\ calls' = Append(calls, NewCall(<<Head(queue)>>, "single"))

\* ---- MessageQueueManager.enqueue -> MessageQueue.enqueue -> addToBatch ----
MessageTypes == {"GENERIC", "REPLY"}

\* nothing of the queue is waiting, running or armed, and nobody is typing
FullyIdle ==
  /\ queue = << >> /\ messageBuffer = << >> /\ calls = << >> /\ ~processing
  /\ ~batchTimer /\ batchTimeouts = << >> /\ initialDelayTimer = NULL
  /\ typingPauseTimer = NULL /\ emergencyTimer = NULL /\ immediates = << >>
  /\ users = {} /\ (queueExists => ~isTypingActive)

\* the burst after the arrival of r: r opens a burst on a fully idle queue and
\* continues one when it comes less than a batch window after the previous
\* arrival with no call outstanding
BurstAfter(r) ==
  IF FullyIdle THEN <<r>>
  ELSE IF burst # << >> /\ sinceArrival < BATCH_DELAY_MS /\ calls = << >>
  THEN Append(burst, r)
  ELSE << >>

\* the mutant of StartInitialDelay that waits a batch window only
StartInitialDelayBatch(t) == IF t # NULL THEN t ELSE BATCH_DELAY_MS

\* startInitialDelay: the timer field after the call
StartInitialDelay(t) == IF t # NULL THEN t ELSE INITIAL_REQUEST_DELAY_MS

\* the mutant of PromotedBuffer that puts the promoted queue behind the arrival
PromotedBufferBehind(q, buf, r) == Append(buf, r) \o q

\* the buffer after the promotion of the queue and the push of addToBatch
PromotedBuffer(q, buf, r) == Append(q \o buf, r)

ArmedEmergencyTimer(newBuf, em) ==
  IF Len(newBuf) = 1 /\ em = NULL THEN EmergencyMaxWaitTime ELSE em

Enqueue(t) ==
  /\ enqueued < MaxReqs
  /\ LET r == enqueued + 1
         typing == IF queueExists THEN isTypingActive ELSE IsChannelTyping
         newBuf == PromotedBuffer(queue, messageBuffer, r)
     IN  /\ enqueued' = r
         /\ messageType' = [messageType EXCEPT ![r] = t]
         /\ queueExists' = TRUE
         /\ isTypingActive' = typing
         /\ sinceArrival' = 0
         /\ burst' = BurstAfter(r)
         /\ IF processing \/ batchTimer \/ initialDelayTimer # NULL \/ typing
            THEN /\ messageBuffer' = newBuf
                 /\ queue' = << >>
                 /\ emergencyTimer' = ArmedEmergencyTimer(newBuf, emergencyTimer)
                 /\ batchTimeouts' = Append(ClearBatchTimeout(batchTimeouts),
                                            NewBatchTimeout(BATCH_DELAY_MS, FALSE))
                 /\ batchTimer' = TRUE
                 /\ UNCHANGED initialDelayTimer
            ELSE /\ queue' = Append(queue, r)
                 /\ initialDelayTimer' = StartInitialDelay(initialDelayTimer)
                 /\ UNCHANGED <<messageBuffer, emergencyTimer, batchTimeouts, batchTimer>>
  /\ UNCHANGED <<managerVars, typingStateExists, users, lastTypingStop, processing,
                 typingPauseTimer, immediates, calls, currentAbortController,
                 settled, rebatched>>

\* ---- timer callbacks ----
InitialDelayFire ==
  /\ initialDelayTimer = 0
  /\ initialDelayTimer' = NULL
  /\ IF isTypingActive
     THEN UNCHANGED <<processing, queue, calls>>
     ELSE ProcessNext
  /\ UNCHANGED <<managerVars, queueExists, typingStateExists, users, lastTypingStop,
                 messageBuffer, batchTimer, batchTimeouts, typingPauseTimer,
                 emergencyTimer, isTypingActive, immediates,
                 currentAbortController, enqueued, messageType, settled,
                 rebatched, sinceArrival, burst>>

\* the callback of the timeout set at the end of addToBatch
BatchTimerFire(i) ==
  /\ i \in DOMAIN batchTimeouts
  /\ batchTimeouts[i].rem = 0
  /\ ~batchTimeouts[i].inner
  /\ LET rest == RemoveAt(batchTimeouts, i)
         remainingWait == TYPING_PAUSE_DELAY_MS - GetTimeSinceLastTypingStop
     IN  IF ShouldWaitForTypingPause /\ remainingWait > 0
         THEN /\ batchTimeouts' = Append(ForgetBatchTimeout(rest),
                                         NewBatchTimeout(remainingWait, TRUE))
              /\ batchTimer' = TRUE
              /\ UNCHANGED <<processing, messageBuffer, calls, emergencyTimer>>
         ELSE ProcessBatchedMessages(rest, batchTimer, emergencyTimer)
  /\ UNCHANGED <<managerVars, queueExists, typingStateExists, users, lastTypingStop, queue,
                 initialDelayTimer, typingPauseTimer, isTypingActive,
                 immediates, currentAbortController, enqueued, messageType,
                 settled, rebatched, sinceArrival, burst>>

\* the callback of the rescheduled timeout of addToBatch
BatchRescheduleFire(i) ==
  /\ i \in DOMAIN batchTimeouts
  /\ batchTimeouts[i].rem = 0
  /\ batchTimeouts[i].inner
  /\ ProcessBatchedMessages(RemoveAt(batchTimeouts, i), batchTimer, emergencyTimer)
  /\ UNCHANGED <<managerVars, queueExists, typingStateExists, users, lastTypingStop, queue,
                 initialDelayTimer, typingPauseTimer, isTypingActive,
                 immediates, currentAbortController, enqueued, messageType,
                 settled, rebatched, sinceArrival, burst>>

EmergencyTimerFire ==
  /\ emergencyTimer = 0
  /\ ProcessBatchedMessages(batchTimeouts, batchTimer, NULL)
  /\ UNCHANGED <<managerVars, queueExists, typingStateExists, users, lastTypingStop, queue,
                 initialDelayTimer, typingPauseTimer, isTypingActive,
                 immediates, currentAbortController, enqueued, messageType,
                 settled, rebatched, sinceArrival, burst>>

\* startTypingPauseTimer callback -> tryProcessingAfterTypingPause.  The field
\* keeps the handle of the fired timeout; it is only ever passed to
\* clearTimeout, so a fired handle and null behave alike.
TypingPauseFire ==
  /\ typingPauseTimer = 0
  /\ typingPauseTimer' = NULL
  /\ IF processing
     THEN UNCHANGED <<processing, queue, messageBuffer, calls, batchTimer,
                      batchTimeouts, emergencyTimer>>
     ELSE IF messageBuffer # << >>
     THEN /\ ProcessBatchedMessages(batchTimeouts, batchTimer, emergencyTimer)
          /\ UNCHANGED queue
     ELSE IF queue # << >> /\ initialDelayTimer = NULL
     THEN /\ ProcessNext
          /\ UNCHANGED <<messageBuffer, batchTimer, batchTimeouts, emergencyTimer>>
     ELSE UNCHANGED <<processing, queue, messageBuffer, calls, batchTimer,
                      batchTimeouts, emergencyTimer>>
  /\ UNCHANGED <<managerVars, queueExists, typingStateExists, users, lastTypingStop,
                 initialDelayTimer, isTypingActive, immediates,
                 currentAbortController, enqueued, messageType, settled,
                 rebatched, sinceArrival, burst>>

\* ---- the outcome of one dispatch ----
\* what the collaborators and the backend do during one call
Outcomes(msgs) ==
  {"text", "empty", "backendError", "linkFail", "attachFail"}
    \cup (IF \E i \in DOMAIN msgs : messageType[msgs[i]] = "REPLY"
          THEN {"fetchFail"} ELSE {})

\* getAttachmentDescription (src/util/attachments.ts): a failure degrades to
\* an empty description and is not thrown
GetAttachmentDescription(outcome) == "ok"

\* processLinks: getYouTubeInfo and fetchPageMetadata catch their failures and
\* return the fallback metadata
ProcessLinks(outcome) == "ok"

\* formatDiscordMessage: "ok" when a content string is returned, else "throw";
\* the await of channel.messages.fetch is not guarded
FormatDiscordMessage(outcome) ==
  IF outcome = "fetchFail" THEN "throw"
  ELSE IF outcome = "attachFail" THEN GetAttachmentDescription(outcome)
  ELSE IF outcome = "linkFail" THEN ProcessLinks(outcome)
  ELSE "ok"

\* the mutant of ProcessBatch whose catch rethrows the backend error
ProcessBatchRethrows(outcome) ==
  IF outcome = "noAgent" THEN "empty"
  ELSE IF FormatDiscordMessage(outcome) = "throw" THEN "throw"
  ELSE IF outcome = "backendError" THEN "throw"
  ELSE IF outcome = "empty" THEN "empty"
  ELSE "text"

\* the mutant of ProcessBatch without the check of AGENT_ID
ProcessBatchUnchecked(outcome) ==
  IF outcome = "noAgent" THEN "text"
  ELSE IF FormatDiscordMessage(outcome) = "throw" THEN "throw"
  ELSE IF outcome = "backendError" THEN "empty"
  ELSE IF outcome = "empty" THEN "empty"
  ELSE "text"

\* processBatch / processMessage / processTimerMessage /
\* processMemberJoinMessage: the value returned, or "throw".  Without AGENT_ID
\* they return "" at once; the catch around createStream and processStream
\* logs the error and returns ""
ProcessBatch(outcome) ==
  IF outcome = "noAgent" THEN "empty"
  ELSE IF FormatDiscordMessage(outcome) = "throw" THEN "throw"
  ELSE IF outcome = "backendError" THEN "empty"
  ELSE IF outcome = "empty" THEN "empty"
  ELSE "text"

\* the mutant of BatchResolution that hands the reply to the first request
BatchResolutionFirst(msgs, i, response) ==
  IF i = 1 THEN response ELSE "empty"

\* processBatchedMessages lines 305-314: the value msgs[i].resolve receives
BatchResolution(msgs, i, response) ==
  IF i = Len(msgs) THEN response ELSE "empty"

IndexOf(msgs, r) == CHOOSE i \in DOMAIN msgs : msgs[i] = r

Settlement(call, r, outcome) ==
  LET response == ProcessBatch(outcome)
  IN  [how  |-> IF response = "throw" THEN "reject" ELSE "resolve",
       val  |-> IF response = "throw" THEN "error"
                ELSE IF call.kind = "single" THEN response
                ELSE BatchResolution(call.msgs, IndexOf(call.msgs, r), response),
       call |-> call.msgs,
       end  |-> outcome]

\* a continueProcessing that leaves the in-flight flag set
ContinueProcessingBlocked ==
  /\ processing' = processing
  /\ typingPauseTimer' = NULL
  /\ immediates' = immediates

\* continueProcessing
ContinueProcessing ==
  /\ processing' = FALSE
  /\ typingPauseTimer' = NULL
  /\ immediates' =
       IF ~batchTimer /\ initialDelayTimer = NULL /\ ~isTypingActive
       THEN IF messageBuffer # << >>
            THEN Append(immediates, "processBatchedMessages")
            ELSE IF queue # << >>
            THEN Append(immediates, "startInitialDelay")
            ELSE immediates
       ELSE immediates

\* the awaited processBatch / processMessage settles: try, catch and finally
\* of processBatchedMessages and processNext
Complete(i, outcome) ==
  /\ i \in DOMAIN calls
  /\ outcome \in Outcomes(calls[i].msgs)
  /\ calls' = RemoveAt(calls, i)
  /\ settled' = [r \in Reqs |->
                   IF r \in Range(calls[i].msgs)
                   THEN Append(settled[r], Settlement(calls[i], r, outcome))
                   ELSE settled[r]]
  /\ ContinueProcessing
  /\ UNCHANGED <<managerVars, queueExists, typingStateExists, users, lastTypingStop, queue,
                 messageBuffer, batchTimer, batchTimeouts, initialDelayTimer,
                 emergencyTimer, isTypingActive, currentAbortController,
                 enqueued, messageType, rebatched, sinceArrival, burst>>

\* a callback scheduled by continueProcessing with setImmediate runs
RunImmediate ==
  /\ immediates # << >>
  /\ immediates' = Tail(immediates)
  /\ IF Head(immediates) = "processBatchedMessages"
     THEN /\ ProcessBatchedMessages(batchTimeouts, batchTimer, emergencyTimer)
          /\ UNCHANGED initialDelayTimer
     ELSE /\ initialDelayTimer' = StartInitialDelay(initialDelayTimer)
          /\ UNCHANGED <<processing, messageBuffer, calls, batchTimer,
                         batchTimeouts, emergencyTimer>>
  /\ UNCHANGED <<managerVars, queueExists, typingStateExists, users, lastTypingStop, queue,
                 typingPauseTimer, isTypingActive, currentAbortController,
                 enqueued, messageType, settled, rebatched, sinceArrival, burst>>

\* ---- MessageQueueManager.onTypingStart / onTypingStop ----
\* no typing call has been made
NoNotification == [call |-> "none", transition |-> FALSE, sent |-> FALSE]

\* an onTypingStateChange that starts the typing pause timer whatever it is told
TypingPauseTimerRestarted(isTyping) == TYPING_PAUSE_DELAY_MS

\* MessageQueue.onTypingStateChange: the typing pause timer it leaves
TypingPauseTimerAfter(isTyping) ==
  IF isTyping THEN NULL ELSE TYPING_PAUSE_DELAY_MS

OnTypingStart(u) ==
  /\ u \in Users
  /\ typingStateExists' = TRUE
  /\ users' = users \cup {u}
  /\ burst' = << >>
  /\ notified' = [call |-> "start", transition |-> users = {}, sent |-> queueExists]
  /\ IF queueExists
     THEN /\ isTypingActive' = TRUE
          /\ typingPauseTimer' = TypingPauseTimerAfter(TRUE)
     ELSE UNCHANGED <<isTypingActive, typingPauseTimer>>
  /\ UNCHANGED <<queues, typingStates, AGENT_ID, event, pureVars, queueExists, lastTypingStop, queue, processing, messageBuffer,
                 batchTimer, batchTimeouts, initialDelayTimer, emergencyTimer,
                 immediates, calls, currentAbortController, enqueued,
                 messageType, settled, rebatched, sinceArrival>>

\* called by the stop timeout that the TypingStart handler sets for a user it
\* has added to the set
OnTypingStop(u) ==
  /\ typingStateExists
  /\ u \in users
  /\ users' = users \ {u}
  /\ burst' = << >>
  /\ notified' = [call |-> "stop", transition |-> users' = {},
                  sent |-> users' = {} /\ queueExists]
  /\ IF users' = {}
     THEN /\ lastTypingStop' = 0
          /\ IF queueExists
             THEN /\ isTypingActive' = FALSE
                  /\ typingPauseTimer' = TypingPauseTimerAfter(FALSE)
             ELSE UNCHANGED <<isTypingActive, typingPauseTimer>>
     ELSE UNCHANGED <<lastTypingStop, isTypingActive, typingPauseTimer>>
  /\ UNCHANGED <<queues, typingStates, AGENT_ID, event, pureVars, queueExists, typingStateExists, queue, processing,
                 messageBuffer, batchTimer, batchTimeouts, initialDelayTimer,
                 emergencyTimer, immediates, calls, currentAbortController,
                 enqueued, messageType, settled, rebatched, sinceArrival>>

\* ---- the clock: one tick passes; a due timeout fires before time moves on ----
\* the age of the latest arrival is counted up to the longest delay of the queue
ArrivalAgeCap == Max(INITIAL_REQUEST_DELAY_MS, BATCH_DELAY_MS)

Elapse(t) == IF t = NULL THEN NULL ELSE t - 1

Tick ==
  /\ immediates = << >>
  /\ initialDelayTimer # 0
  /\ typingPauseTimer # 0
  /\ emergencyTimer # 0
  /\ \A i \in DOMAIN batchTimeouts : batchTimeouts[i].rem # 0
  /\ initialDelayTimer' = Elapse(initialDelayTimer)
  /\ typingPauseTimer' = Elapse(typingPauseTimer)
  /\ emergencyTimer' = Elapse(emergencyTimer)
  /\ batchTimeouts' = [i \in DOMAIN batchTimeouts |->
                         [batchTimeouts[i] EXCEPT !.rem = @ - 1]]
  /\ lastTypingStop' = IF lastTypingStop = NULL THEN NULL
                       ELSE Min(lastTypingStop + 1, TYPING_PAUSE_DELAY_MS)
  /\ sinceArrival' = Min(sinceArrival + 1, ArrivalAgeCap)
  /\ UNCHANGED <<managerVars, queueExists, typingStateExists, users, queue, processing,
                 messageBuffer, batchTimer, isTypingActive, immediates, calls,
                 currentAbortController, enqueued, messageType, settled,
                 rebatched, burst>>

\* ---- the typing-aware queue of one chat channel ----
\* the fields of a MessageQueue and of its channel's TypingState after
\* construction, with no request made yet
InitQueue ==
  /\ queueExists = FALSE
  /\ typingStateExists = FALSE
  /\ users = {}
  /\ lastTypingStop = NULL
  /\ queue = << >>
  /\ processing = FALSE
  /\ messageBuffer = << >>
  /\ batchTimer = FALSE
  /\ batchTimeouts = << >>
  /\ initialDelayTimer = NULL
  /\ typingPauseTimer = NULL
  /\ emergencyTimer = NULL
  /\ isTypingActive = FALSE
  /\ immediates = << >>
  /\ calls = << >>
  /\ currentAbortController = FALSE
  /\ enqueued = 0
  /\ messageType = [r \in Reqs |-> "GENERIC"]
  /\ settled = [r \in Reqs |-> << >>]
  /\ rebatched = {}
  /\ sinceArrival = ArrivalAgeCap
  /\ burst = << >>
  /\ notified = NoNotification

\* channel ids: two chat channels and the reserved id of the system queue
SystemId == "__system__"

ChatChannels == {"A", "B"}

ChannelIds == ChatChannels \cup {SystemId}

\* no entry of MessageQueueManager.queues for the channel
NoQueue ==
  [exists |-> FALSE, queue |-> << >>, processing |-> FALSE,
   messageBuffer |-> << >>, batchTimer |-> FALSE, batchTimeouts |-> << >>,
   initialDelayTimer |-> FALSE, typingPauseTimer |-> FALSE,
   emergencyTimer |-> FALSE, isTypingActive |-> FALSE, immediates |-> << >>,
   calls |-> << >>]

\* no entry of MessageQueueManager.typingStates for the channel
NoTypingState == [exists |-> FALSE, users |-> {}, stopped |-> FALSE]

InitManager ==
  /\ queues = [c \in ChannelIds |-> NoQueue]
  /\ typingStates = [c \in ChannelIds |-> NoTypingState]
  /\ event = [r \in Reqs |-> "chat"]

\* no stream is being read
\* error: the error the returned promise is rejected with, "none" without one
NotReturned == [done |-> FALSE, text |-> << >>, error |-> "none"]

\* set/text: the presence of the Discord client; saved/savedText: the status file
NoStatus == [set |-> FALSE, text |-> << >>, saved |-> FALSE, savedText |-> << >>]

StreamAtRest ==
  /\ chunksRead = 0
  /\ agentMessageResponse = << >>
  /\ status = NoStatus
  /\ streamResult = NotReturned

\* no batch is being combined
NotBuilt == [built |-> FALSE, sent |-> FALSE, content |-> << >>]

BatchAtRest ==
  /\ formatted = 0
  /\ messageContents = << >>
  /\ combinedContent = NotBuilt

\* nothing has been truncated
NotTruncated == [message |-> << >>, done |-> FALSE, result |-> << >>]

\* no channel has a conversation and no call is under way
NoMappings == [mappings |-> << >>, conversations |-> << >>, callers |-> << >>]

\* the timer feature has not been started
\* delay: minutes left of the heartbeat timeout, or NULL; restart: the
\* one-second timeout is pending; callback: the await the heartbeat callback
\* is suspended at; fired: heartbeat timeouts that have fired
TimerNotStarted ==
  [ENABLE_TIMER |-> FALSE, CHANNEL_ID |-> FALSE, started |-> FALSE,
   delay |-> NULL, restart |-> FALSE, callback |-> "none", fired |-> 0]

\* no typing event has been handled.  timers: per channel and user, the ticks
\* left of the pending stop timeouts in the order they were set; map: the
\* typingTimeouts map has the key; since: ticks since the latest TypingStart
\* of the pair; events: TypingStart events handled
NoTimeouts == [timers |-> << >>, map |-> << >>, since |-> << >>, events |-> 0]

UtilAtRest ==
  /\ truncation = NotTruncated
  /\ conversationMappings = NoMappings
  /\ eventTimer = TimerNotStarted
  /\ typingTimeouts = NoTimeouts

InitPure ==
  /\ stream = << >>
  /\ StreamAtRest
  /\ batch = << >>
  /\ BatchAtRest
  /\ UtilAtRest

\* the agent id is configured
Init == InitQueue /\ InitManager /\ InitPure /\ AGENT_ID = TRUE

Next ==
  \/ \E t \in MessageTypes : Enqueue(t)
  \/ InitialDelayFire
  \/ \E i \in DOMAIN batchTimeouts : BatchTimerFire(i)
  \/ \E i \in DOMAIN batchTimeouts : BatchRescheduleFire(i)
  \/ EmergencyTimerFire
  \/ TypingPauseFire
  \/ \E i \in DOMAIN calls : \E o \in Outcomes(calls[i].msgs) : Complete(i, o)
  \/ RunImmediate
  \/ \E u \in Users : OnTypingStart(u)
  \/ \E u \in Users : OnTypingStop(u)
  \/ Tick

Spec == Init /\ [][Next]_vars

SpecFair ==
  /\ Spec
  /\ WF_vars(InitialDelayFire)
  /\ WF_vars(\E i \in DOMAIN batchTimeouts : BatchTimerFire(i))
  /\ WF_vars(\E i \in DOMAIN batchTimeouts : BatchRescheduleFire(i))
  /\ WF_vars(EmergencyTimerFire)
  /\ WF_vars(TypingPauseFire)
  /\ WF_vars(RunImmediate)
  /\ WF_vars(\E o \in {"text", "empty", "backendError"} : Complete(1, o))
  /\ WF_vars(Tick)

\* ================= the abort-and-rebatch queue of one chat channel =========
\* messageQueue.ts lines 718-1195.  The manager hands chat messages only to the
\* queue of their channel, so the queue of a chat channel holds chat messages.
\* Untimed: a batch timeout is pending with nothing left to wait and may fire
\* at any moment after it is set.

NewCallAbort(msgs, k) ==
  [msgs |-> msgs, kind |-> k, stage |-> "format", ctl |-> FALSE, aborted |-> FALSE]

\* this.currentAbortController.abort(): the call owning the controller
AbortCurrent(cs) ==
  [i \in DOMAIN cs |-> IF cs[i].ctl THEN [cs[i] EXCEPT !.aborted = TRUE] ELSE cs[i]]

\* this.currentAbortController is overwritten or set to null
DropController(cs) == [i \in DOMAIN cs |-> [cs[i] EXCEPT !.ctl = FALSE]]

\* MessageQueueManager.enqueue -> MessageQueue.enqueue -> interruptAndBatch / processNext
EnqueueAbort(t) ==
  /\ enqueued < MaxReqsAbort
  /\ LET r == enqueued + 1
     IN  /\ enqueued' = r
         /\ messageType' = [messageType EXCEPT ![r] = t]
         /\ queueExists' = TRUE
         /\ IF processing \/ batchTimer
            THEN \* interruptAndBatch
                 /\ calls' = IF processing /\ currentAbortController
                             THEN AbortCurrent(calls) ELSE calls
                 /\ messageBuffer' = Append(messageBuffer, r)
                 /\ batchTimeouts' = Append(ClearBatchTimeout(batchTimeouts),
                                            NewBatchTimeout(0, FALSE))
                 /\ batchTimer' = TRUE
                 /\ UNCHANGED <<processing, queue>>
            ELSE \* queue.push; processNext: processing is false here
                 /\ processing' = TRUE
                 /\ queue' = Tail(Append(queue, r))
                 /\ calls' = Append(calls, NewCallAbort(<<Head(Append(queue, r))>>, "single"))
                 /\ UNCHANGED <<messageBuffer, batchTimeouts, batchTimer>>
  /\ UNCHANGED <<managerVars, typingStateExists, users, lastTypingStop, initialDelayTimer,
                 typingPauseTimer, emergencyTimer, isTypingActive, immediates,
                 currentAbortController, settled, rebatched, sinceArrival, burst>>

\* the batch timeout fires: processBatchedMessages up to the await
BatchTimerFireAbort ==
  /\ batchTimeouts # << >>
  /\ batchTimeouts' = Tail(batchTimeouts)
  /\ IF messageBuffer = << >>
     THEN UNCHANGED <<processing, messageBuffer, calls, batchTimer>>
     ELSE /\ processing' = TRUE
          /\ calls' = Append(calls, NewCallAbort(messageBuffer, "batch"))
          /\ messageBuffer' = << >>
          /\ batchTimer' = FALSE
  /\ UNCHANGED <<managerVars, queueExists, typingStateExists, users, lastTypingStop, queue,
                 initialDelayTimer, typingPauseTimer, emergencyTimer,
                 isTypingActive, immediates, currentAbortController, enqueued,
                 messageType, settled, rebatched, sinceArrival, burst>>

\* formatDiscordMessage has returned for every message of the call:
\* this.currentAbortController = new AbortController(); createStream is awaited
CreateStream(i) ==
  /\ i \in DOMAIN calls
  /\ calls[i].stage = "format"
  /\ calls' = [DropController(calls) EXCEPT ![i].stage = "backend", ![i].ctl = TRUE]
  /\ currentAbortController' = TRUE
  /\ UNCHANGED <<managerVars, queueExists, typingStateExists, users, lastTypingStop, queue,
                 processing, messageBuffer, batchTimer, batchTimeouts,
                 initialDelayTimer, typingPauseTimer, emergencyTimer,
                 isTypingActive, immediates, enqueued, messageType, settled,
                 rebatched, sinceArrival, burst>>

\* continueProcessing of the abort variant
ContinueProcessingAbort ==
  /\ processing' = FALSE
  /\ immediates' = IF queue # << >> /\ ~batchTimer
                   THEN Append(immediates, "processNext") ELSE immediates

\* the outcomes a call can end with where it stands
OutcomesAbort(c) ==
  IF c.stage = "format"
  THEN IF \E i \in DOMAIN c.msgs : messageType[c.msgs[i]] = "REPLY"
       THEN {"fetchFail"} ELSE {}
  ELSE IF c.aborted THEN {}
  ELSE {"text", "empty", "backendError"}

\* the awaited processBatch / processMessage settles without cancellation:
\* finally of processBatch / processMessage (when the try was entered), then
\* try / catch / finally of processBatchedMessages / processNext
CompleteAbort(i, outcome) ==
  /\ i \in DOMAIN calls
  /\ outcome \in OutcomesAbort(calls[i])
  /\ calls' = IF calls[i].stage = "backend"
              THEN RemoveAt(DropController(calls), i)
              ELSE RemoveAt(calls, i)
  /\ currentAbortController' = IF calls[i].stage = "backend" THEN FALSE
                               ELSE currentAbortController
  /\ settled' = [r \in Reqs |->
                   IF r \in Range(calls[i].msgs)
                   THEN Append(settled[r], Settlement(calls[i], r, outcome))
                   ELSE settled[r]]
  /\ ContinueProcessingAbort
  /\ UNCHANGED <<managerVars, queueExists, typingStateExists, users, lastTypingStop, queue,
                 messageBuffer, batchTimer, batchTimeouts, initialDelayTimer,
                 typingPauseTimer, emergencyTimer, isTypingActive, enqueued,
                 messageType, rebatched, sinceArrival, burst>>

\* a catch that puts the requests of the cancelled call back twice
PutBackTwice(c) == c.msgs \o c.msgs

\* the requests of a cancelled call that the catch puts back: all of a batch;
\* of processNext the chat message or member join, not a timer heartbeat
PutBack(c) ==
  IF c.kind = "single" /\ event[c.msgs[1]] = "timer" THEN << >> ELSE c.msgs

\* the buffer after this.messageBuffer.unshift(...messages)
Unshift(buf, msgs) == msgs \o buf

\* the cancelled call reports its AbortError: finally of processBatch /
\* processMessage, then the abort branch of the catch and the finally of
\* processBatchedMessages / processNext
AbortedCallSettles(i) ==
  /\ i \in DOMAIN calls
  /\ calls[i].stage = "backend"
  /\ calls[i].aborted
  /\ calls' = RemoveAt(DropController(calls), i)
  /\ currentAbortController' = FALSE
  /\ messageBuffer' = Unshift(messageBuffer, PutBack(calls[i]))
  /\ rebatched' = rebatched \cup Range(PutBack(calls[i]))
  /\ ContinueProcessingAbort
  /\ UNCHANGED <<managerVars, queueExists, typingStateExists, users, lastTypingStop, queue,
                 batchTimer, batchTimeouts, initialDelayTimer, typingPauseTimer,
                 emergencyTimer, isTypingActive, enqueued, messageType, settled,
                 sinceArrival, burst>>

NextAbort ==
  \/ \E t \in MessageTypes : EnqueueAbort(t)
  \/ BatchTimerFireAbort
  \/ \E i \in DOMAIN calls : CreateStream(i)
  \/ \E i \in DOMAIN calls : \E o \in OutcomesAbort(calls[i]) : CompleteAbort(i, o)
  \/ \E i \in DOMAIN calls : AbortedCallSettles(i)

SpecAbort == Init /\ [][NextAbort]_vars

\* the event loop: a set timeout fires, awaited operations settle
SpecAbortFair ==
  /\ SpecAbort
  /\ WF_vars(BatchTimerFireAbort)
  /\ WF_vars(\E i \in DOMAIN calls : CreateStream(i))
  /\ WF_vars(\E i \in DOMAIN calls :
               \E o \in {"text", "empty", "backendError"} : CompleteAbort(i, o))
  /\ WF_vars(\E i \in DOMAIN calls : AbortedCallSettles(i))

\* ================= the "__system__" queue of the abort variant =============
\* messageQueue.ts lines 677-715, 823-877 and 1058-1195: the manager hands
\* timer heartbeats and member joins, and nothing else, to this queue.

\* processTimerMessage / processMemberJoinMessage: the controller is created
\* before the first await
NewCallSystem(r) ==
  [msgs |-> <<r>>, kind |-> "single", stage |-> "backend", ctl |-> TRUE, aborted |-> FALSE]

\* a processNext that does not look at the processing flag
ProcessNextRunsAlways(p, q) == q # << >>

\* processNext goes past its early return
ProcessNextRuns(p, q) == ~p /\ q # << >>

\* processNext of the abort variant on the queue q, up to its await
ProcessNextAbort(q) ==
  IF ProcessNextRuns(processing, q)
  THEN LET h == Head(q)
       IN  /\ processing' = TRUE
           /\ queue' = Tail(q)
           /\ calls' = IF event'[h] = "chat"
                       THEN Append(calls, NewCallAbort(<<h>>, "single"))
                       ELSE Append(DropController(calls), NewCallSystem(h))
           /\ currentAbortController' = IF event'[h] = "chat"
                                        THEN currentAbortController ELSE TRUE
  ELSE /\ queue' = q
       /\ UNCHANGED <<processing, calls, currentAbortController>>

\* MessageQueueManager.enqueueTimerMessage / enqueueMemberJoinMessage ->
\* MessageQueue.enqueueTimerMessage / enqueueMemberJoinMessage
EnqueueSystemAbort(what) ==
  /\ enqueued < MaxReqsAbort
  /\ enqueued' = enqueued + 1
  /\ event' = [event EXCEPT ![enqueued + 1] = what]
  /\ queueExists' = TRUE
  /\ ProcessNextAbort(Append(queue, enqueued + 1))
  /\ UNCHANGED <<queues, typingStates, AGENT_ID, notified, pureVars, typingStateExists, users,
                 lastTypingStop, messageBuffer, batchTimer, batchTimeouts,
                 initialDelayTimer, typingPauseTimer, emergencyTimer,
                 isTypingActive, immediates, messageType, settled, rebatched,
                 sinceArrival, burst>>

EnqueueTimerMessageAbort == EnqueueSystemAbort("timer")

EnqueueMemberJoinMessageAbort == EnqueueSystemAbort("join")

\* the callback of setImmediate(() => this.processNext()) runs
RunImmediateAbort ==
  /\ immediates # << >>
  /\ immediates' = Tail(immediates)
  /\ UNCHANGED <<managerVars, queueExists, typingStateExists, users,
                 lastTypingStop, messageBuffer, batchTimer, batchTimeouts,
                 initialDelayTimer, typingPauseTimer, emergencyTimer,
                 isTypingActive, enqueued, messageType, settled, rebatched,
                 sinceArrival, burst>>
  /\ ProcessNextAbort(queue)

NextAbortSystem ==
  \/ EnqueueTimerMessageAbort
  \/ EnqueueMemberJoinMessageAbort
  \/ RunImmediateAbort
  \/ \E i \in DOMAIN calls : \E o \in OutcomesAbort(calls[i]) : CompleteAbort(i, o)

SpecAbortSystem == Init /\ [][NextAbortSystem]_vars

\* ================= the shared queue of messages.ts ==========================
\* messages.ts lines 45-455: one MessageQueue instance serves the chat
\* messages of every channel (sendMessage) and the timer heartbeats
\* (sendTimerMessage).  Its methods have the code of the abort variant of
\* messageQueue.ts without member joins.

\* sendMessage -> MessageQueue.enqueue -> interruptAndBatch / processNext
EnqueueShared(t) ==
  /\ enqueued < MaxReqsAbort
  /\ enqueued' = enqueued + 1
  /\ messageType' = [messageType EXCEPT ![enqueued + 1] = t]
  /\ queueExists' = TRUE
  /\ UNCHANGED <<managerVars, typingStateExists, users, lastTypingStop,
                 initialDelayTimer, typingPauseTimer, emergencyTimer,
                 isTypingActive, immediates, settled, rebatched, sinceArrival,
                 burst>>
  /\ IF processing \/ batchTimer
     THEN \* interruptAndBatch
          /\ calls' = IF processing /\ currentAbortController
                      THEN AbortCurrent(calls) ELSE calls
          /\ messageBuffer' = Append(messageBuffer, enqueued + 1)
          /\ batchTimeouts' = Append(ClearBatchTimeout(batchTimeouts),
                                     NewBatchTimeout(0, FALSE))
          /\ batchTimer' = TRUE
          /\ UNCHANGED <<processing, queue, currentAbortController>>
     ELSE \* queue.push; processNext
          /\ ProcessNextAbort(Append(queue, enqueued + 1))
          /\ UNCHANGED <<messageBuffer, batchTimeouts, batchTimer>>

\* sendTimerMessage -> MessageQueue.enqueueTimerMessage
EnqueueTimerMessageShared == EnqueueSystemAbort("timer")

\* the batch timeout fires: processBatchedMessages up to the await
ProcessBatchedMessagesShared == BatchTimerFireAbort

\* the callback of setImmediate(() => this.processNext()) runs
RunImmediateShared == RunImmediateAbort

\* formatDiscordMessage has returned: the controller is created
CreateStreamShared(i) == CreateStream(i)

\* the awaited processBatch / processMessage / processTimerMessage settles
\* without cancellation
CompleteShared(i, outcome) == CompleteAbort(i, outcome)

\* the cancelled call reports its AbortError
AbortedCallSettlesShared(i) == AbortedCallSettles(i)

NextShared ==
  \/ \E t \in MessageTypes : EnqueueShared(t)
  \/ EnqueueTimerMessageShared
  \/ ProcessBatchedMessagesShared
  \/ RunImmediateShared
  \/ \E i \in DOMAIN calls : CreateStreamShared(i)
  \/ \E i \in DOMAIN calls : \E o \in OutcomesAbort(calls[i]) : CompleteShared(i, o)
  \/ \E i \in DOMAIN calls : AbortedCallSettlesShared(i)

SpecShared == Init /\ [][NextShared]_vars

\* the event loop: a set timeout or immediate fires, awaited operations settle
SpecSharedFair ==
  /\ SpecShared
  /\ WF_vars(ProcessBatchedMessagesShared)
  /\ WF_vars(RunImmediateShared)
  /\ WF_vars(\E i \in DOMAIN calls : CreateStreamShared(i))
  /\ WF_vars(\E i \in DOMAIN calls :
               \E o \in {"text", "empty", "backendError"} : CompleteShared(i, o))
  /\ WF_vars(\E i \in DOMAIN calls : AbortedCallSettlesShared(i))

\* ================= MessageQueueManager and all its queues ==================
\* messageQueue.ts lines 33-644, untimed: an armed timeout may fire at any
\* moment.  queues[c] is the MessageQueue of channel id c with the fields of
\* the class; typingStates[c].stopped says that lastTypingStop is not 0.

\* the fields of the single-queue model
queueFields ==
  <<queueExists, typingStateExists, users, lastTypingStop, queue, processing,
    messageBuffer, batchTimer, batchTimeouts, initialDelayTimer,
    typingPauseTimer, emergencyTimer, isTypingActive, immediates, calls,
    currentAbortController, rebatched, sinceArrival, burst>>

\* what the manager model leaves alone
queueVars == <<queueFields, notified, pureVars>>

\* isChannelTyping(channelId)
ChannelTyping(c) == typingStates[c].exists /\ typingStates[c].users # {}

\* a constructor that leaves isTypingActive at its field initialiser
QueueOfNotTyping(c) ==
  IF queues[c].exists THEN queues[c] ELSE [NoQueue EXCEPT !.exists = TRUE]

\* getQueueForMessage / getSystemQueue: the queue of the id, constructed when
\* the map has none
QueueOf(c) ==
  IF queues[c].exists THEN queues[c]
  ELSE [NoQueue EXCEPT !.exists = TRUE, !.isTypingActive = ChannelTyping(c)]

\* the mutant of SetQueue in which all ids share one queue object
SetQueueShared(qs, c, q) == [d \in DOMAIN qs |-> q]

\* the map after the queue of id c has been created or has changed its fields
SetQueue(qs, c, q) == [qs EXCEPT ![c] = q]

\* the mutant of SystemQueueId that routes system events to a chat channel
SystemQueueIdChat == "A"

\* the id under which enqueueTimerMessage / enqueueMemberJoinMessage look up
\* their queue
SystemQueueId == SystemId

\* a processNext that starts a call although one is in flight
QueueProcessNextUnguarded(q) ==
  IF q.queue = << >> THEN q
  ELSE [q EXCEPT !.processing = TRUE,
                 !.queue = Tail(@),
                 !.calls = Append(@, [msgs |-> <<Head(q.queue)>>, kind |-> "single"])]

\* MessageQueue.processNext, up to the await
QueueProcessNext(q) ==
  IF q.processing \/ q.queue = << >> THEN q
  ELSE [q EXCEPT !.processing = TRUE,
                 !.queue = Tail(@),
                 !.calls = Append(@, [msgs |-> <<Head(q.queue)>>, kind |-> "single"])]

\* MessageQueue.processBatchedMessages, up to the await
QueueProcessBatchedMessages(q) ==
  IF q.messageBuffer = << >> THEN q
  ELSE [q EXCEPT !.processing = TRUE,
                 !.calls = Append(@, [msgs |-> q.messageBuffer, kind |-> "batch"]),
                 !.messageBuffer = DrainedBuffer(@),
                 !.batchTimer = FALSE,
                 !.batchTimeouts = ForgetBatchTimeout(@),
                 !.emergencyTimer = FALSE]

\* MessageQueue.enqueue with addToBatch / startInitialDelay
QueueEnqueue(q, r) ==
  IF q.processing \/ q.batchTimer \/ q.initialDelayTimer \/ q.isTypingActive
  THEN LET newBuf == PromotedBuffer(q.queue, q.messageBuffer, r)
       IN  [q EXCEPT !.messageBuffer = newBuf,
                     !.queue = << >>,
                     !.emergencyTimer = (Len(newBuf) = 1 /\ ~@) \/ @,
                     !.batchTimeouts = Append(ClearBatchTimeout(@),
                                              NewBatchTimeout(0, FALSE)),
                     !.batchTimer = TRUE]
  ELSE [q EXCEPT !.queue = Append(@, r), !.initialDelayTimer = TRUE]

\* MessageQueue.enqueueTimerMessage / enqueueMemberJoinMessage
QueueEnqueueSystem(q, r) == QueueProcessNext([q EXCEPT !.queue = Append(@, r)])

\* MessageQueue.continueProcessing
QueueContinueProcessing(q) ==
  [q EXCEPT !.processing = FALSE,
            !.typingPauseTimer = FALSE,
            !.immediates =
               IF ~q.batchTimer /\ ~q.initialDelayTimer /\ ~q.isTypingActive
               THEN IF q.messageBuffer # << >>
                    THEN Append(@, "processBatchedMessages")
                    ELSE IF q.queue # << >>
                    THEN Append(@, "startInitialDelay")
                    ELSE @
               ELSE @]

\* MessageQueueManager.enqueue
ManagerEnqueue(c, t) ==
  /\ c \in ChatChannels
  /\ enqueued < MaxReqs
  /\ LET r == enqueued + 1
     IN  /\ enqueued' = r
         /\ messageType' = [messageType EXCEPT ![r] = t]
         /\ event' = [event EXCEPT ![r] = "chat"]
         /\ queues' = SetQueue(queues, c, QueueEnqueue(QueueOf(c), r))
  /\ UNCHANGED <<typingStates, AGENT_ID, settled, queueVars>>

\* MessageQueueManager.enqueueTimerMessage / enqueueMemberJoinMessage
ManagerEnqueueSystem(what) ==
  /\ enqueued < MaxReqs
  /\ LET r == enqueued + 1
     IN  /\ enqueued' = r
         /\ event' = [event EXCEPT ![r] = what]
         /\ queues' = SetQueue(queues, SystemQueueId,
                               QueueEnqueueSystem(QueueOf(SystemQueueId), r))
  /\ UNCHANGED <<typingStates, AGENT_ID, messageType, settled, queueVars>>

ManagerEnqueueTimerMessage == ManagerEnqueueSystem("timer")

ManagerEnqueueMemberJoinMessage == ManagerEnqueueSystem("join")

\* MessageQueueManager.onTypingStart, with MessageQueue.onTypingStateChange(true)
ManagerOnTypingStart(c, u) ==
  /\ c \in ChatChannels
  /\ u \in Users
  /\ typingStates' = [typingStates EXCEPT ![c] =
                        [@ EXCEPT !.exists = TRUE, !.users = @ \cup {u}]]
  /\ queues' = IF queues[c].exists
               THEN SetQueue(queues, c, [queues[c] EXCEPT !.isTypingActive = TRUE,
                                                          !.typingPauseTimer = FALSE])
               ELSE queues
  /\ UNCHANGED <<AGENT_ID, event, enqueued, messageType, settled, queueVars>>

\* MessageQueueManager.onTypingStop, with MessageQueue.onTypingStateChange(false);
\* called by the stop timeout of a user the TypingStart handler has added
ManagerOnTypingStop(c, u) ==
  /\ c \in ChatChannels
  /\ typingStates[c].exists
  /\ u \in typingStates[c].users
  /\ LET left == typingStates[c].users \ {u}
     IN  /\ typingStates' = [typingStates EXCEPT ![c] =
                               [@ EXCEPT !.users = left,
                                         !.stopped = @ \/ left = {}]]
         /\ queues' = IF left = {} /\ queues[c].exists
                      THEN SetQueue(queues, c,
                                    [queues[c] EXCEPT !.isTypingActive = FALSE,
                                                      !.typingPauseTimer = TRUE])
                      ELSE queues
  /\ UNCHANGED <<AGENT_ID, event, enqueued, messageType, settled, queueVars>>

\* the callback of startInitialDelay
QueueInitialDelayFire(c) ==
  /\ queues[c].initialDelayTimer
  /\ LET q == [queues[c] EXCEPT !.initialDelayTimer = FALSE]
     IN  queues' = SetQueue(queues, c,
                            IF q.isTypingActive THEN q ELSE QueueProcessNext(q))
  /\ UNCHANGED <<typingStates, AGENT_ID, event, enqueued, messageType, settled,
                 queueVars>>

\* the callback of the timeout set at the end of addToBatch.  Whether the
\* typing pause is still running depends on the time since lastTypingStop,
\* which is Infinity while lastTypingStop is 0
QueueBatchTimerFire(c, i, recent) ==
  /\ i \in DOMAIN queues[c].batchTimeouts
  /\ ~queues[c].batchTimeouts[i].inner
  /\ recent => typingStates[c].stopped
  /\ LET q == [queues[c] EXCEPT !.batchTimeouts = RemoveAt(@, i)]
     IN  queues' = SetQueue(queues, c,
           IF recent
           THEN [q EXCEPT !.batchTimeouts = Append(ForgetBatchTimeout(@),
                                                   NewBatchTimeout(0, TRUE)),
                          !.batchTimer = TRUE]
           ELSE QueueProcessBatchedMessages(q))
  /\ UNCHANGED <<typingStates, AGENT_ID, event, enqueued, messageType, settled,
                 queueVars>>

\* the callback of the rescheduled timeout of addToBatch
QueueBatchRescheduleFire(c, i) ==
  /\ i \in DOMAIN queues[c].batchTimeouts
  /\ queues[c].batchTimeouts[i].inner
  /\ queues' = SetQueue(queues, c,
       QueueProcessBatchedMessages([queues[c] EXCEPT !.batchTimeouts = RemoveAt(@, i)]))
  /\ UNCHANGED <<typingStates, AGENT_ID, event, enqueued, messageType, settled,
                 queueVars>>

\* the callback of the emergency timer
QueueEmergencyTimerFire(c) ==
  /\ queues[c].emergencyTimer
  /\ queues' = SetQueue(queues, c,
       QueueProcessBatchedMessages([queues[c] EXCEPT !.emergencyTimer = FALSE]))
  /\ UNCHANGED <<typingStates, AGENT_ID, event, enqueued, messageType, settled,
                 queueVars>>

\* the callback of startTypingPauseTimer: tryProcessingAfterTypingPause
QueueTypingPauseFire(c) ==
  /\ queues[c].typingPauseTimer
  /\ LET q == [queues[c] EXCEPT !.typingPauseTimer = FALSE]
     IN  queues' = SetQueue(queues, c,
           IF q.processing THEN q
           ELSE IF q.messageBuffer # << >> THEN QueueProcessBatchedMessages(q)
           ELSE IF q.queue # << >> /\ ~q.initialDelayTimer THEN QueueProcessNext(q)
           ELSE q)
  /\ UNCHANGED <<typingStates, AGENT_ID, event, enqueued, messageType, settled,
                 queueVars>>

\* a callback scheduled by continueProcessing with setImmediate runs
QueueRunImmediate(c) ==
  /\ queues[c].immediates # << >>
  /\ LET q == [queues[c] EXCEPT !.immediates = Tail(@)]
     IN  queues' = SetQueue(queues, c,
           IF Head(queues[c].immediates) = "processBatchedMessages"
           THEN QueueProcessBatchedMessages(q)
           ELSE [q EXCEPT !.initialDelayTimer = TRUE])
  /\ UNCHANGED <<typingStates, AGENT_ID, event, enqueued, messageType, settled,
                 queueVars>>

\* what can happen during one dispatch: nothing is formatted or sent without
\* AGENT_ID; a timer or member-join text needs no collaborator
ManagerOutcomes(msgs) ==
  IF ~AGENT_ID THEN {"noAgent"}
  ELSE IF event[msgs[1]] = "chat" THEN Outcomes(msgs)
  ELSE {"text", "empty", "backendError"}

\* the awaited processBatch / processMessage / processTimerMessage /
\* processMemberJoinMessage settles: try, catch and finally of
\* processBatchedMessages and processNext
QueueComplete(c, i, outcome) ==
  /\ i \in DOMAIN queues[c].calls
  /\ outcome \in ManagerOutcomes(queues[c].calls[i].msgs)
  /\ settled' = [r \in Reqs |->
                   IF r \in Range(queues[c].calls[i].msgs)
                   THEN Append(settled[r], Settlement(queues[c].calls[i], r, outcome))
                   ELSE settled[r]]
  /\ queues' = SetQueue(queues, c,
       QueueContinueProcessing([queues[c] EXCEPT !.calls = RemoveAt(@, i)]))
  /\ UNCHANGED <<typingStates, AGENT_ID, event, enqueued, messageType, queueVars>>

\* a step made for channel id c
StepOf(c) ==
  \/ \E t \in MessageTypes : ManagerEnqueue(c, t)
  \/ c = SystemQueueId /\ ManagerEnqueueTimerMessage
  \/ c = SystemQueueId /\ ManagerEnqueueMemberJoinMessage
  \/ \E u \in Users : ManagerOnTypingStart(c, u)
  \/ \E u \in Users : ManagerOnTypingStop(c, u)
  \/ QueueInitialDelayFire(c)
  \/ \E i \in DOMAIN queues[c].batchTimeouts : \E recent \in BOOLEAN :
       QueueBatchTimerFire(c, i, recent)
  \/ \E i \in DOMAIN queues[c].batchTimeouts : QueueBatchRescheduleFire(c, i)
  \/ QueueEmergencyTimerFire(c)
  \/ QueueTypingPauseFire(c)
  \/ QueueRunImmediate(c)
  \/ \E i \in DOMAIN queues[c].calls :
       \E o \in ManagerOutcomes(queues[c].calls[i].msgs) : QueueComplete(c, i, o)

NextManager ==
  \/ \E c \in ChatChannels : \E t \in MessageTypes : ManagerEnqueue(c, t)
  \/ ManagerEnqueueTimerMessage
  \/ ManagerEnqueueMemberJoinMessage
  \/ \E c \in ChatChannels : \E u \in Users : ManagerOnTypingStart(c, u)
  \/ \E c \in ChatChannels : \E u \in Users : ManagerOnTypingStop(c, u)
  \/ \E c \in ChannelIds : QueueInitialDelayFire(c)
  \/ \E c \in ChannelIds : \E i \in DOMAIN queues[c].batchTimeouts :
       \E recent \in BOOLEAN : QueueBatchTimerFire(c, i, recent)
  \/ \E c \in ChannelIds : \E i \in DOMAIN queues[c].batchTimeouts :
       QueueBatchRescheduleFire(c, i)
  \/ \E c \in ChannelIds : QueueEmergencyTimerFire(c)
  \/ \E c \in ChannelIds : QueueTypingPauseFire(c)
  \/ \E c \in ChannelIds : QueueRunImmediate(c)
  \/ \E c \in ChannelIds : \E i \in DOMAIN queues[c].calls :
       \E o \in ManagerOutcomes(queues[c].calls[i].msgs) : QueueComplete(c, i, o)

\* the agent id is configured or not
InitAnyAgent == InitQueue /\ InitManager /\ InitPure /\ AGENT_ID \in BOOLEAN

SpecManager == InitAnyAgent /\ [][NextManager]_vars

\* ---- the manager under typing events of any users ----
\* the users whose typing events reach the manager
Typers == 1..MaxTypers

\* what MessageQueueManager.onTypingStart does to the manager and the queue
TypingStarted(c, u) ==
  /\ typingStates' = [typingStates EXCEPT ![c] =
                        [@ EXCEPT !.exists = TRUE, !.users = @ \cup {u}]]
  /\ queues' = IF queues[c].exists
               THEN SetQueue(queues, c, [queues[c] EXCEPT !.isTypingActive = TRUE,
                                                          !.typingPauseTimer = FALSE])
               ELSE queues

\* MessageQueueManager.onTypingStart for any user
OnTypingStartAny(c, u) ==
  /\ u \in Typers
  /\ TypingStarted(c, u)
  /\ UNCHANGED <<AGENT_ID, event, enqueued, messageType, settled, queueVars>>

\* what MessageQueueManager.onTypingStop does to the manager and the queue
TypingStopped(c, u) ==
  /\ typingStates[c].exists
  /\ LET left == typingStates[c].users \ {u}
     IN  /\ typingStates' = [typingStates EXCEPT ![c] =
                               [@ EXCEPT !.users = left,
                                         !.stopped = @ \/ left = {}]]
         /\ queues' = IF left = {} /\ queues[c].exists
                      THEN SetQueue(queues, c,
                                    [queues[c] EXCEPT !.isTypingActive = FALSE,
                                                      !.typingPauseTimer = TRUE])
                      ELSE queues

\* MessageQueueManager.onTypingStop for any user, typing or not, of a channel
\* that has a typing state (without one the call does nothing)
OnTypingStopAny(c, u) ==
  /\ u \in Typers
  /\ TypingStopped(c, u)
  /\ UNCHANGED <<AGENT_ID, event, enqueued, messageType, settled, queueVars>>

\* the chat channels only: no typing event names the system queue
NextTyping ==
  \/ \E c \in ChatChannels : \E t \in MessageTypes : ManagerEnqueue(c, t)
  \/ \E c \in ChatChannels : \E u \in Typers : OnTypingStartAny(c, u)
  \/ \E c \in ChatChannels : \E u \in Typers : OnTypingStopAny(c, u)
  \/ \E c \in ChannelIds : QueueInitialDelayFire(c)
  \/ \E c \in ChannelIds : \E i \in DOMAIN queues[c].batchTimeouts :
       \E recent \in BOOLEAN : QueueBatchTimerFire(c, i, recent)
  \/ \E c \in ChannelIds : \E i \in DOMAIN queues[c].batchTimeouts :
       QueueBatchRescheduleFire(c, i)
  \/ \E c \in ChannelIds : QueueEmergencyTimerFire(c)
  \/ \E c \in ChannelIds : QueueTypingPauseFire(c)
  \/ \E c \in ChannelIds : QueueRunImmediate(c)
  \/ \E c \in ChannelIds : \E i \in DOMAIN queues[c].calls :
       \E o \in ManagerOutcomes(queues[c].calls[i].msgs) : QueueComplete(c, i, o)

SpecTyping == InitAnyAgent /\ [][NextTyping]_vars

\* ================= processStream ============================================
\* src/unnamed/part_006 lines 37-106 (part_005 lines 38-101 is the same
\* function for a stream whose assistant content is always a string).  A text
\* is a sequence of characters.

Chars == {" ", "a"}

\* the characters String.prototype.trim removes
Whitespace == {" ", "\n"}

Texts == UNION {[1..n -> Chars] : n \in 0..MaxText}

\* the parts of an array-valued content
PartLists == UNION {[1..n -> Texts] : n \in 0..MaxParts}

\* a chunk that has none of the fields the function reads
PlainChunk(t) ==
  [message_type |-> t, array |-> FALSE, content |-> << >>, name |-> "",
   arguments |-> FALSE, is_responding |-> FALSE, message |-> << >>,
   malformed |-> FALSE]

\* chunk types the switch only logs; "none" is a chunk without message_type
LoggedTypes ==
  {"stop_reason", "reasoning_message", "tool_return_message",
   "usage_statistics", "unknown", "none"}

Chunks ==
  {PlainChunk(t) : t \in LoggedTypes}
  \cup {[PlainChunk("assistant_message") EXCEPT !.content = <<c>>] : c \in Texts}
  \cup {[PlainChunk("assistant_message") EXCEPT !.array = TRUE, !.content = ps] :
          ps \in PartLists}
  \cup {[PlainChunk("tool_call_message") EXCEPT !.name = n] :
          n \in {"set_status", "send_response", "other"}}
  \cup {[PlainChunk("tool_call_message") EXCEPT
           !.name = "set_status", !.arguments = TRUE, !.message = m] : m \in Texts}
  \cup {[PlainChunk("tool_call_message") EXCEPT
           !.name = "send_response", !.arguments = TRUE, !.is_responding = b,
           !.message = m] : b \in BOOLEAN, m \in Texts}

Streams == UNION {[1..n -> Chunks] : n \in 0..MaxChunks}

\* the separator of parts.join("\n\n")
BlankLine == <<"\n", "\n">>

\* Array.prototype.join
RECURSIVE Join(_, _)
Join(parts, sep) ==
  IF parts = << >> THEN << >>
  ELSE IF Len(parts) = 1 THEN parts[1]
  ELSE parts[1] \o sep \o Join(Tail(parts), sep)

\* the text without its leading whitespace
RECURSIVE TrimStart(_)
TrimStart(s) ==
  IF s # << >> /\ Head(s) \in Whitespace THEN TrimStart(Tail(s)) ELSE s

RECURSIVE TrimEnd(_)
TrimEnd(s) ==
  IF s # << >> /\ s[Len(s)] \in Whitespace
  THEN TrimEnd(SubSeq(s, 1, Len(s) - 1)) ELSE s

\* a trim that leaves trailing whitespace
TrimLeading(s) == TrimStart(s)

\* String.prototype.trim
Trim(s) == TrimEnd(TrimStart(s))

\* what one pass of the loop body appends to agentMessageResponse
Appended(chunk) ==
  IF chunk.message_type = "assistant_message"
  THEN IF Len(chunk.content) > 0
       THEN IF chunk.array THEN Join(chunk.content, BlankLine) ELSE chunk.content[1]
       ELSE << >>
  ELSE IF /\ chunk.message_type = "tool_call_message"
          /\ chunk.name = "send_response"
          /\ chunk.arguments
          /\ chunk.is_responding
       THEN chunk.message
       ELSE << >>

\* what the side effects of a set_status tool call do: both succeed;
\* setActivity throws (saveStatus is not reached); setActivity succeeds and the
\* write of saveStatus fails (caught and logged inside saveStatus)
SideEffects == {"done", "setActivityThrows", "saveStatusFails"}

\* the chunk is a tool call whose arguments the loop body parses
ParsedToolCall(chunk) ==
  /\ chunk.message_type = "tool_call_message"
  /\ chunk.name \in {"set_status", "send_response"}
  /\ chunk.arguments

\* the presence and the status file after the loop body has handled the chunk
StatusAfter(chunk, effect) ==
  IF ParsedToolCall(chunk) /\ chunk.name = "set_status"
  THEN IF effect = "setActivityThrows" THEN status
       ELSE IF effect = "saveStatusFails"
            THEN [status EXCEPT !.set = TRUE, !.text = chunk.message]
            ELSE [set |-> TRUE, text |-> chunk.message,
                  saved |-> TRUE, savedText |-> chunk.message]
  ELSE status

\* a set_status branch without its try/catch
AfterSideEffectUncaught(chunk, effect) ==
  IF ParsedToolCall(chunk) /\ chunk.name = "set_status" /\ effect = "setActivityThrows"
  THEN [done |-> TRUE, text |-> << >>, error |-> "DiscordError"]
  ELSE streamResult

\* the catch of the set_status branch logs the error: processStream goes on
AfterSideEffect(chunk, effect) == streamResult

\* one pass of `for await (const chunk of response)` over a chunk whose
\* arguments, if the pass parses them, are JSON
ProcessStreamChunkWith(effect) ==
  /\ ~streamResult.done
  /\ chunksRead < Len(stream)
  /\ LET chunk == stream[chunksRead + 1]
     IN  /\ ~(ParsedToolCall(chunk) /\ chunk.malformed)
         /\ agentMessageResponse' = agentMessageResponse \o Appended(chunk)
         /\ status' = StatusAfter(chunk, effect)
         /\ streamResult' = AfterSideEffect(chunk, effect)
  /\ chunksRead' = chunksRead + 1
  /\ UNCHANGED <<stream, batch, formatted, messageContents,
                 combinedContent, queueFields, utilVars, queues, typingStates, AGENT_ID,
                 event, notified, enqueued, messageType, settled>>

\* the pass when every side effect succeeds
ProcessStreamChunk == ProcessStreamChunkWith("done")

\* JSON.parse throws on the arguments of a set_status or send_response tool
\* call: the outer catch logs and rethrows
ProcessStreamParseThrows ==
  /\ ~streamResult.done
  /\ chunksRead < Len(stream)
  /\ ParsedToolCall(stream[chunksRead + 1])
  /\ stream[chunksRead + 1].malformed
  /\ streamResult' = [done |-> TRUE, text |-> << >>, error |-> "SyntaxError"]
  /\ UNCHANGED <<stream, chunksRead, agentMessageResponse, status, batch,
                 formatted, messageContents, combinedContent, queueFields, utilVars,
                 queues, typingStates, AGENT_ID, event, notified, enqueued,
                 messageType, settled>>

\* the iterator of the stream rejects instead of yielding the next chunk or
\* ending: the outer catch logs and rethrows
ProcessStreamIterationThrows ==
  /\ ~streamResult.done
  /\ chunksRead <= Len(stream)
  /\ streamResult' = [done |-> TRUE, text |-> << >>, error |-> "StreamError"]
  /\ UNCHANGED <<stream, chunksRead, agentMessageResponse, status, batch,
                 formatted, messageContents, combinedContent, queueFields, utilVars,
                 queues, typingStates, AGENT_ID, event, notified, enqueued,
                 messageType, settled>>

\* the stream has ended: the return after the loop
ProcessStreamReturn ==
  /\ ~streamResult.done
  /\ chunksRead = Len(stream)
  /\ streamResult' =
       [done |-> TRUE,
        text |-> IF Trim(agentMessageResponse) # << >>
                 THEN Trim(agentMessageResponse) ELSE << >>,
        error |-> "none"]
  /\ UNCHANGED <<stream, chunksRead, agentMessageResponse, status, batch,
                 formatted, messageContents, combinedContent, queueFields, utilVars,
                 queues, typingStates, AGENT_ID, event, notified, enqueued,
                 messageType, settled>>

\* processStream is called with any stream that ends normally
InitStream ==
  /\ InitQueue
  /\ InitManager
  /\ AGENT_ID = TRUE
  /\ stream \in Streams
  /\ StreamAtRest
  /\ batch = << >>
  /\ BatchAtRest
  /\ UtilAtRest

NextStream == ProcessStreamChunk \/ ProcessStreamReturn

SpecStream == InitStream /\ [][NextStream]_vars

\* ---- processStream with failures ----
\* tool calls whose arguments are not JSON
MalformedChunks ==
  {[PlainChunk("tool_call_message") EXCEPT
      !.name = n, !.arguments = TRUE, !.malformed = TRUE] :
     n \in {"set_status", "send_response"}}

\* the chunks that matter to the side effects and to the failures
FaultChunks ==
  {PlainChunk("reasoning_message")}
  \cup {[PlainChunk("assistant_message") EXCEPT !.content = <<c>>] : c \in Texts}
  \cup {[PlainChunk("tool_call_message") EXCEPT
           !.name = "set_status", !.arguments = TRUE, !.message = m] : m \in Texts}
  \cup MalformedChunks

FaultStreams == UNION {[1..n -> FaultChunks] : n \in 0..MaxFaultChunks}

\* processStream is called with any stream
InitStreamFaults ==
  /\ InitQueue
  /\ InitManager
  /\ AGENT_ID = TRUE
  /\ stream \in FaultStreams
  /\ StreamAtRest
  /\ batch = << >>
  /\ BatchAtRest
  /\ UtilAtRest

NextStreamFaults ==
  \/ \E effect \in SideEffects : ProcessStreamChunkWith(effect)
  \/ ProcessStreamParseThrows
  \/ ProcessStreamIterationThrows
  \/ ProcessStreamReturn

SpecStreamFaults == InitStreamFaults /\ [][NextStreamFaults]_vars

\* ================= processBatch: the payload ================================
\* messageQueue.ts lines 378-418.  A request of the batch is known by what it
\* carries; the formatted text of the i-th request is the token Text(i).  The
\* payload is a sequence of tokens.

BatchKinds == {"chat", "join", "timer"}

\* processBatchedMessages calls processBatch with a non-empty buffer
Batches == UNION {[1..n -> BatchKinds] : n \in 1..MaxBatch}

Text(i) == [token |-> "text", n |-> i]

\* `[BATCH: ${n} messages received in quick succession]`
Marker(n) == [token |-> "marker", n |-> n]

\* "\n\n"
Separator == [token |-> "blank line", n |-> 0]

\* a marker that counts the requests of the batch
MarkerCountAll(msgs, contents) == Len(msgs)

\* messageContents.length
MarkerCount(msgs, contents) == Len(contents)

\* messageContents.join("\n\n")
RECURSIVE JoinContents(_)
JoinContents(contents) ==
  IF contents = << >> THEN << >>
  ELSE IF Len(contents) = 1 THEN <<Text(contents[1])>>
  ELSE <<Text(contents[1]), Separator>> \o JoinContents(Tail(contents))

CombinedContent(msgs, contents) ==
  IF Len(contents) = 1 THEN <<Text(contents[1])>>
  ELSE <<Marker(MarkerCount(msgs, contents)), Separator>> \o JoinContents(contents)

\* `if (!AGENT_ID) return ""`
ProcessBatchNoAgent ==
  /\ ~AGENT_ID
  /\ batch # << >>
  /\ ~combinedContent.built
  /\ combinedContent' = [built |-> TRUE, sent |-> FALSE, content |-> << >>]
  /\ UNCHANGED <<batch, formatted, messageContents, stream, chunksRead,
                 agentMessageResponse, status, streamResult, queueFields, utilVars,
                 queues, typingStates, AGENT_ID, event, notified, enqueued,
                 messageType, settled>>

\* one pass of the loop over the batch: a timer heartbeat is skipped, the text
\* of a member join or of a chat message is pushed
ProcessBatchFormat ==
  /\ AGENT_ID
  /\ ~combinedContent.built
  /\ formatted < Len(batch)
  /\ formatted' = formatted + 1
  /\ messageContents' = IF batch[formatted + 1] = "timer" THEN messageContents
                        ELSE Append(messageContents, formatted + 1)
  /\ UNCHANGED <<batch, combinedContent, stream, chunksRead,
                 agentMessageResponse, status, streamResult, queueFields, utilVars,
                 queues, typingStates, AGENT_ID, event, notified, enqueued,
                 messageType, settled>>

\* formatDiscordMessage throws for a chat message: processBatch ends without
\* a payload
ProcessBatchFormatThrows ==
  /\ AGENT_ID
  /\ ~combinedContent.built
  /\ formatted < Len(batch)
  /\ batch[formatted + 1] = "chat"
  /\ combinedContent' = [built |-> TRUE, sent |-> FALSE, content |-> << >>]
  /\ UNCHANGED <<batch, formatted, messageContents, stream, chunksRead,
                 agentMessageResponse, status, streamResult, queueFields, utilVars,
                 queues, typingStates, AGENT_ID, event, notified, enqueued,
                 messageType, settled>>

\* after the loop: nothing to send, or the payload handed to createStream
ProcessBatchCombine ==
  /\ AGENT_ID
  /\ ~combinedContent.built
  /\ batch # << >>
  /\ formatted = Len(batch)
  /\ combinedContent' =
       IF messageContents = << >>
       THEN [built |-> TRUE, sent |-> FALSE, content |-> << >>]
       ELSE [built |-> TRUE, sent |-> TRUE,
             content |-> CombinedContent(batch, messageContents)]
  /\ UNCHANGED <<batch, formatted, messageContents, stream, chunksRead,
                 agentMessageResponse, status, streamResult, queueFields, utilVars,
                 queues, typingStates, AGENT_ID, event, notified, enqueued,
                 messageType, settled>>

\* processBatch is called with any non-empty batch
InitBatch ==
  /\ InitQueue
  /\ InitManager
  /\ AGENT_ID \in BOOLEAN
  /\ batch \in Batches
  /\ BatchAtRest
  /\ stream = << >>
  /\ StreamAtRest
  /\ UtilAtRest

NextBatch ==
  \/ ProcessBatchNoAgent
  \/ ProcessBatchFormat
  \/ ProcessBatchFormatThrows
  \/ ProcessBatchCombine

SpecBatch == InitBatch /\ [][NextBatch]_vars

\* ================= truncateMessage ==========================================
\* src/unnamed/part_005 lines 27-32, called by formatDiscordMessage with the
\* content of the replied-to message and 100.  A message is a sequence of
\* characters (UTF-16 code units).

\* the maxLength of the call in formatDiscordMessage
QuoteMaxLength == 100

Ellipsis == <<".", ".", ".">>

\* the contents tried: of every length up to MaxMessage, with a "b" at every
\* p-th place and "a" elsewhere, so that places can be told apart
Patterns == {2, 3}

Content(n, p) == [i \in 1..n |-> IF i % p = 0 THEN "b" ELSE "a"]

Messages == {Content(n, p) : n \in 0..MaxMessage, p \in Patterns}

\* String.prototype.substring(0, end) for 0 <= end
Substring0(s, end) == SubSeq(s, 1, IF end < Len(s) THEN end ELSE Len(s))

\* a truncation that cuts at maxLength and then appends the ellipsis
TruncateMessageLate(m, maxLength) ==
  IF Len(m) > maxLength THEN Substring0(m, maxLength) \o Ellipsis ELSE m

\* truncateMessage(message, maxLength)
TruncateMessage(m, maxLength) ==
  IF Len(m) > maxLength THEN Substring0(m, maxLength - 3) \o Ellipsis ELSE m

\* formatDiscordMessage quotes the replied-to message
Truncate ==
  /\ ~truncation.done
  /\ truncation' = [truncation EXCEPT
                      !.done = TRUE,
                      !.result = TruncateMessage(truncation.message, QuoteMaxLength)]
  /\ UNCHANGED <<conversationMappings, eventTimer, typingTimeouts,
                 stream, chunksRead, agentMessageResponse, status, streamResult,
                 batch, formatted, messageContents, combinedContent,
                 queueFields, queues, typingStates, AGENT_ID, event, notified,
                 enqueued, messageType, settled>>

\* truncateMessage is called with any content
InitTruncate ==
  /\ InitQueue
  /\ InitManager
  /\ AGENT_ID = TRUE
  /\ stream = << >>
  /\ StreamAtRest
  /\ batch = << >>
  /\ BatchAtRest
  /\ truncation \in {[NotTruncated EXCEPT !.message = m] : m \in Messages}
  /\ conversationMappings = NoMappings
  /\ eventTimer = TimerNotStarted
  /\ typingTimeouts = NoTimeouts

NextTruncate == Truncate

SpecTruncate == InitTruncate /\ [][NextTruncate]_vars

\* ================= getOrCreateConversation ==================================
\* src/src/util/conversationMappings.ts lines 47-67.  A conversation id is the
\* place of the conversation in the order in which the backend created them;
\* 0 stands for a channel without an entry in `mappings`.

\* what the queue, stream and batch models hold, left alone below
queueAndStreamVars ==
  <<stream, chunksRead, agentMessageResponse, status, streamResult,
    batch, formatted, messageContents, combinedContent,
    queueFields, queues, typingStates, AGENT_ID, event, notified,
    enqueued, messageType, settled>>

Callers == 1..MaxCallers

NotCalled == [pc |-> "idle", channelId |-> "A", id |-> 0]

\* mappings[channelId] = conversation.id
MappingSet(c, id) == [conversationMappings.mappings EXCEPT ![c] = id]

\* the call up to its first await: the existing id is returned, or
\* client.conversations.create is called
GetOrCreateConversation(k, c) ==
  /\ conversationMappings.callers[k].pc = "idle"
  /\ conversationMappings' =
       [conversationMappings EXCEPT !.callers[k] =
          IF conversationMappings.mappings[c] # 0
          THEN [pc |-> "returned", channelId |-> c, id |-> conversationMappings.mappings[c]]
          ELSE [pc |-> "creating", channelId |-> c, id |-> 0]]
  /\ UNCHANGED <<truncation, eventTimer, typingTimeouts, queueAndStreamVars>>

\* client.conversations.create resolves: the backend has a new conversation,
\* the call writes its id into mappings and calls saveMappings
ConversationCreated(k) ==
  /\ conversationMappings.callers[k].pc = "creating"
  /\ LET c == conversationMappings.callers[k].channelId
         id == Len(conversationMappings.conversations) + 1
     IN  conversationMappings' =
           [conversations |-> Append(conversationMappings.conversations, c),
            mappings |-> MappingSet(c, id),
            callers |-> [conversationMappings.callers EXCEPT
                           ![k] = [pc |-> "saving", channelId |-> c, id |-> id]]]
  /\ UNCHANGED <<truncation, eventTimer, typingTimeouts, queueAndStreamVars>>

\* client.conversations.create rejects: the call rejects
ConversationCreateFails(k) ==
  /\ conversationMappings.callers[k].pc = "creating"
  /\ conversationMappings' =
       [conversationMappings EXCEPT !.callers[k].pc = "rejected"]
  /\ UNCHANGED <<truncation, eventTimer, typingTimeouts, queueAndStreamVars>>

\* saveMappings has settled (it catches its own failures): the call returns
\* the id of the conversation it created
MappingsSaved(k) ==
  /\ conversationMappings.callers[k].pc = "saving"
  /\ conversationMappings' =
       [conversationMappings EXCEPT !.callers[k].pc = "returned"]
  /\ UNCHANGED <<truncation, eventTimer, typingTimeouts, queueAndStreamVars>>

ConversationChannels == {"A", "B"}

\* after initConversationMappings and loadConversationMappings: channel B has
\* a saved conversation or not, channel A has none
InitConversations ==
  /\ InitQueue
  /\ InitManager
  /\ AGENT_ID = TRUE
  /\ stream = << >>
  /\ StreamAtRest
  /\ batch = << >>
  /\ BatchAtRest
  /\ truncation = NotTruncated
  /\ eventTimer = TimerNotStarted
  /\ typingTimeouts = NoTimeouts
  /\ \E loaded \in BOOLEAN :
       conversationMappings =
         [mappings |-> [c \in ConversationChannels |->
                          IF loaded /\ c = "B" THEN 1 ELSE 0],
          conversations |-> IF loaded THEN <<"B">> ELSE << >>,
          callers |-> [k \in Callers |-> NotCalled]]

NextConversations ==
  \/ \E k \in Callers : \E c \in ConversationChannels : GetOrCreateConversation(k, c)
  \/ \E k \in Callers : ConversationCreated(k)
  \/ \E k \in Callers : ConversationCreateFails(k)
  \/ \E k \in Callers : MappingsSaved(k)

SpecConversations == InitConversations /\ [][NextConversations]_vars

\* ================= startRandomEventTimer ====================================
\* src/src/eventTimer.ts lines 10-57.  Time advances in minutes; the
\* one-second timeout that restarts the timer is a flag.

\* the default of TIMER_INTERVAL_MINUTES
TIMER_INTERVAL_MINUTES == 30

\* minMinutes + Math.floor(Math.random() * (TIMER_INTERVAL_MINUTES - minMinutes))
RandomMinutes == 1..(TIMER_INTERVAL_MINUTES - 1)

\* the callback goes on to its last statement: the one-second timeout is set
RestartScheduled(t) == [t EXCEPT !.callback = "none", !.restart = TRUE]

\* ClientReady calls startRandomEventTimer
StartRandomEventTimer ==
  /\ ~eventTimer.started
  /\ \E m \in RandomMinutes :
       eventTimer' = [eventTimer EXCEPT
                        !.started = TRUE,
                        !.delay = IF eventTimer.ENABLE_TIMER THEN m ELSE NULL]
  /\ UNCHANGED <<truncation, conversationMappings, typingTimeouts, queueAndStreamVars>>

MinutePasses ==
  /\ eventTimer.delay # NULL
  /\ eventTimer.delay > 0
  /\ eventTimer' = [eventTimer EXCEPT !.delay = @ - 1]
  /\ UNCHANGED <<truncation, conversationMappings, typingTimeouts, queueAndStreamVars>>

\* the heartbeat timeout fires: Math.random() < FIRING_PROBABILITY or not
HeartbeatTimerFires ==
  /\ eventTimer.delay = 0
  /\ eventTimer.fired < MaxFirings
  /\ \E triggered \in BOOLEAN :
       LET t == [eventTimer EXCEPT !.delay = NULL, !.fired = @ + 1]
       IN  eventTimer' = IF triggered
                         THEN [t EXCEPT !.callback = "sendTimerMessage"]
                         ELSE RestartScheduled(t)
  /\ UNCHANGED <<truncation, conversationMappings, typingTimeouts, queueAndStreamVars>>

\* `await sendTimerMessage()` resolves, with a text or with ""
SendTimerMessageResolves ==
  /\ eventTimer.callback = "sendTimerMessage"
  /\ \E text \in BOOLEAN :
       eventTimer' = IF text /\ eventTimer.CHANNEL_ID
                     THEN [eventTimer EXCEPT !.callback = "fetch"]
                     ELSE RestartScheduled(eventTimer)
  /\ UNCHANGED <<truncation, conversationMappings, typingTimeouts, queueAndStreamVars>>

\* `await client.channels.fetch(CHANNEL_ID)` resolves, with a channel that has
\* `send` or with something else
ChannelFetchResolves ==
  /\ eventTimer.callback = "fetch"
  /\ \E sendable \in BOOLEAN :
       eventTimer' = IF sendable
                     THEN [eventTimer EXCEPT !.callback = "send"]
                     ELSE RestartScheduled(eventTimer)
  /\ UNCHANGED <<truncation, conversationMappings, typingTimeouts, queueAndStreamVars>>

\* `await client.channels.fetch(CHANNEL_ID)` rejects: the await is in no try
\* block, so the callback ends there
ChannelFetchRejects ==
  /\ eventTimer.callback = "fetch"
  /\ eventTimer' = [eventTimer EXCEPT !.callback = "none"]
  /\ UNCHANGED <<truncation, conversationMappings, typingTimeouts, queueAndStreamVars>>

\* `await channel.send(message)` settles; a rejection is caught and logged
ChannelSendSettles ==
  /\ eventTimer.callback = "send"
  /\ eventTimer' = RestartScheduled(eventTimer)
  /\ UNCHANGED <<truncation, conversationMappings, typingTimeouts, queueAndStreamVars>>

\* the one-second timeout fires and calls startRandomEventTimer
RestartTimerFires ==
  /\ eventTimer.restart
  /\ \E m \in RandomMinutes :
       eventTimer' = [eventTimer EXCEPT !.restart = FALSE, !.delay = m]
  /\ UNCHANGED <<truncation, conversationMappings, typingTimeouts, queueAndStreamVars>>

\* the process has started: ENABLE_TIMER and CHANNEL_ID are set or not
InitEventTimer ==
  /\ InitQueue
  /\ InitManager
  /\ AGENT_ID = TRUE
  /\ stream = << >>
  /\ StreamAtRest
  /\ batch = << >>
  /\ BatchAtRest
  /\ truncation = NotTruncated
  /\ conversationMappings = NoMappings
  /\ typingTimeouts = NoTimeouts
  /\ \E e, c \in BOOLEAN :
       eventTimer = [TimerNotStarted EXCEPT !.ENABLE_TIMER = e, !.CHANNEL_ID = c]

NextEventTimer ==
  \/ StartRandomEventTimer
  \/ MinutePasses
  \/ HeartbeatTimerFires
  \/ SendTimerMessageResolves
  \/ ChannelFetchResolves
  \/ ChannelFetchRejects
  \/ ChannelSendSettles
  \/ RestartTimerFires

SpecEventTimer == InitEventTimer /\ [][NextEventTimer]_vars

\* ================= the TypingStart handler ==================================
\* src/unnamed/part_002 lines 113-142.  One tick is a second.  The bot's own
\* typing and the ignored channel return before anything is done.

\* the 10000 ms of the stop timeout
TYPING_TIMEOUT == 10

\* `${channelId}-${userId}`
TypingKeys == ChatChannels \X Typers

\* no clearTimeout: the earlier timeout stays pending
ClearTimeoutSkipped(timers) == timers

\* clearTimeout(existingTimeout): the handle in the map is the latest timeout
\* set for the key
ClearTimeout(timers) ==
  IF timers = << >> THEN timers ELSE SubSeq(timers, 1, Len(timers) - 1)

\* client.on(Events.TypingStart)
TypingStart(c, u) ==
  /\ typingTimeouts.events < MaxTypingEvents
  /\ TypingStarted(c, u)
  /\ LET key == <<c, u>>
         kept == IF typingTimeouts.map[key]
                 THEN ClearTimeout(typingTimeouts.timers[key])
                 ELSE typingTimeouts.timers[key]
     IN  typingTimeouts' =
           [timers |-> [typingTimeouts.timers EXCEPT ![key] = Append(kept, TYPING_TIMEOUT)],
            map |-> [typingTimeouts.map EXCEPT ![key] = TRUE],
            since |-> [typingTimeouts.since EXCEPT ![key] = 0],
            events |-> typingTimeouts.events + 1]
  /\ UNCHANGED <<truncation, conversationMappings, eventTimer,
                 stream, chunksRead, agentMessageResponse, status, streamResult,
                 batch, formatted, messageContents, combinedContent,
                 queueFields, AGENT_ID, event, notified, enqueued, messageType,
                 settled>>

\* the callback of a stop timeout
TypingTimeoutFires(c, u, i) ==
  /\ i \in DOMAIN typingTimeouts.timers[<<c, u>>]
  /\ typingTimeouts.timers[<<c, u>>][i] = 0
  /\ TypingStopped(c, u)
  /\ typingTimeouts' =
       [typingTimeouts EXCEPT !.timers[<<c, u>>] = RemoveAt(@, i),
                              !.map[<<c, u>>] = FALSE]
  /\ UNCHANGED <<truncation, conversationMappings, eventTimer,
                 stream, chunksRead, agentMessageResponse, status, streamResult,
                 batch, formatted, messageContents, combinedContent,
                 queueFields, AGENT_ID, event, notified, enqueued, messageType,
                 settled>>

\* a second passes; a timeout that is due fires first
TypingTick ==
  /\ \A key \in TypingKeys : \A i \in DOMAIN typingTimeouts.timers[key] :
       typingTimeouts.timers[key][i] > 0
  /\ \E key \in TypingKeys : typingTimeouts.timers[key] # << >>
  /\ typingTimeouts' =
       [typingTimeouts EXCEPT
          !.timers = [key \in TypingKeys |->
                        [i \in DOMAIN typingTimeouts.timers[key] |->
                           typingTimeouts.timers[key][i] - 1]],
          !.since = [key \in TypingKeys |->
                       IF typingTimeouts.since[key] = NULL THEN NULL
                       ELSE Min(typingTimeouts.since[key] + 1, TYPING_TIMEOUT)]]
  /\ UNCHANGED <<truncation, conversationMappings, eventTimer, queueAndStreamVars>>

\* the client is ready: nobody has typed
InitTypingHandler ==
  /\ InitQueue
  /\ InitManager
  /\ AGENT_ID = TRUE
  /\ stream = << >>
  /\ StreamAtRest
  /\ batch = << >>
  /\ BatchAtRest
  /\ truncation = NotTruncated
  /\ conversationMappings = NoMappings
  /\ eventTimer = TimerNotStarted
  /\ typingTimeouts = [timers |-> [key \in TypingKeys |-> << >>],
                       map |-> [key \in TypingKeys |-> FALSE],
                       since |-> [key \in TypingKeys |-> NULL],
                       events |-> 0]

NextTypingHandler ==
  \/ \E c \in ChatChannels : \E u \in Typers : TypingStart(c, u)
  \/ \E c \in ChatChannels : \E u \in Typers :
       \E i \in DOMAIN typingTimeouts.timers[<<c, u>>] : TypingTimeoutFires(c, u, i)
  \/ TypingTick

SpecTypingHandler == InitTypingHandler /\ [][NextTypingHandler]_vars

\* time passes and a due timeout fires
SpecTypingHandlerFair ==
  /\ SpecTypingHandler
  /\ WF_vars(TypingTick)
  /\ \A c \in ChatChannels : \A u \in Typers : \A i \in 1..MaxTypingEvents :
       WF_vars(TypingTimeoutFires(c, u, i))

\* ======================= properties: typing-aware queue ====================
Entries(r) == {settled[r][k] : k \in DOMAIN settled[r]}

AllEntries == UNION {Entries(r) : r \in Reqs}

\* the number of places (queue, buffer, in-flight calls) holding request r
Count(s, r) == Cardinality({i \in DOMAIN s : s[i] = r})

Places(r) ==
  Count(queue, r) + Count(messageBuffer, r) +
  Cardinality({i \in DOMAIN calls : r \in Range(calls[i].msgs)})

\* C1 (as claimed): at most one backend call of the queue is outstanding at
\* any time.
C1_AtMostOneInFlight == Len(calls) <= 1

\* C2: every request has its resolve / reject callbacks invoked at most once
\* in total, is held by at most one of the queue, the batch buffer and the
\* in-flight calls, and by none of them once it is settled.
C2_SettledAtMostOnce ==
  \A r \in Reqs :
    /\ Len(settled[r]) <= 1
    /\ Places(r) <= 1
    /\ Count(queue, r) <= 1 /\ Count(messageBuffer, r) <= 1
    /\ \A i \in DOMAIN calls : Count(calls[i].msgs, r) <= 1
    /\ settled[r] # << >> => Places(r) = 0

C2_Witness ==
  /\ settled[1] # << >>
  /\ settled[2] # << >>
  /\ settled[1][1].call # settled[2][1].call

\* C4: when the backend call of a batch of N >= 2 requests succeeds (with a
\* text reply or with an empty one), the latest-arrived request of the batch
\* is the last element of the batch and is resolved with the reply; every
\* other request of the batch is resolved with the empty string.
C4_LastGetsReply ==
  \A r \in Reqs : \A e \in Entries(r) :
    (Len(e.call) >= 2 /\ e.end \in {"text", "empty"}) =>
      /\ \A i \in DOMAIN e.call : e.call[i] <= Last(e.call)
      /\ e.how = "resolve"
      /\ e.val = IF r = Last(e.call) THEN e.end ELSE "empty"
      /\ \A m \in Range(e.call) : settled[m] # << >>

C4_Witness ==
  \E r \in Reqs : \E e \in Entries(r) :
    Len(e.call) >= 2 /\ e.end = "text" /\ r # Last(e.call)

C6_CollaboratorFailureDegrades ==
  \A e \in AllEntries :
    e.end \in {"fetchFail", "attachFail", "linkFail"} => e.how = "resolve"

\* C3 (as claimed): under SpecFair (armed timers fire, started calls
\* complete), every enqueued request is eventually settled, whatever arrivals
\* and typing signals occur.
C3_EverySettled ==
  \A r \in Reqs : (enqueued >= r) ~> (settled[r] # << >>)

\* the step empties the batch buffer into a backend call
BufferDispatched == messageBuffer # << >> /\ messageBuffer' = << >>

\* C8 (as claimed): the batch buffer is never dispatched earlier than
\* BATCH_DELAY_MS after the most recent chat arrival, except by the emergency
\* timer.
C8_BatchWindowRestarts ==
  [][(BufferDispatched /\ ~EmergencyTimerFire) => sinceArrival >= BATCH_DELAY_MS]_vars

\* C9 (as claimed): when the batch timer fires while a user is typing in the
\* channel the buffer is not dispatched at that moment, and the deferred
\* dispatch happens only when nobody is typing and at least
\* TYPING_PAUSE_DELAY_MS has passed since typing stopped.
C9_TypingDefersBatch ==
  [][\A i \in DOMAIN batchTimeouts :
       /\ (BatchTimerFire(i) /\ users # {}) => ~BufferDispatched
       /\ (BatchRescheduleFire(i) /\ BufferDispatched) =>
            (users = {} /\ lastTypingStop >= TYPING_PAUSE_DELAY_MS)]_vars

\* C10 (as claimed): whenever the batch buffer goes from empty to non-empty,
\* also by the promotion of the queued request together with a new arrival,
\* the emergency timer is armed.
C10_EmergencyArmed ==
  [][(messageBuffer = << >> /\ messageBuffer' # << >>) => emergencyTimer' # NULL]_vars

\* request r is part of a backend call that has not settled
InCall(r) == \E i \in DOMAIN calls : r \in Range(calls[i].msgs)

\* request r has been handed to a backend call
Dispatched(r) == InCall(r) \/ settled[r] # << >>

\* the number of dispatches of request r so far
Dispatches(r) ==
  Cardinality({i \in DOMAIN calls : r \in Range(calls[i].msgs)}) + Len(settled[r])

\* request r waits with its window closed and typing active: alone in the
\* queue after the initial delay has expired, or in the batch buffer
Deferred(r) ==
  /\ isTypingActive
  /\ \/ queue = <<r>> /\ initialDelayTimer = NULL /\ immediates = << >> /\ ~processing
     \/ r \in Range(messageBuffer)

\* C11 (as claimed): under SpecFair, a request whose dispatch is deferred
\* because typing is active is dispatched even when the channel never returns
\* to not-typing.
C11_DeferredDispatched ==
  \A r \in Reqs : Deferred(r) ~> (Dispatched(r) \/ ~IsChannelTyping)

\* C12: a single chat message that arrived on a fully idle queue, with no
\* arrival and no typing signal since, is not dispatched before
\* INITIAL_REQUEST_DELAY_MS has passed since its arrival; once that time has
\* passed and the due timer has fired it has been dispatched, exactly once, in
\* a call that carries it alone, and the response text of that call resolves
\* its request.
C12_SingleAfterDebounce ==
  \A r \in Reqs :
    burst = <<r>> =>
      /\ Dispatched(r) => sinceArrival >= INITIAL_REQUEST_DELAY_MS
      /\ (sinceArrival >= INITIAL_REQUEST_DELAY_MS /\ initialDelayTimer # 0)
           => Dispatched(r)
      /\ Dispatches(r) <= 1
      /\ \A i \in DOMAIN calls :
           r \in Range(calls[i].msgs) => calls[i].msgs = <<r>>
      /\ \A e \in Entries(r) :
           /\ e.call = <<r>>
           /\ e.end = "text" => (e.how = "resolve" /\ e.val = "text")

C12_Witness ==
  \E r \in Reqs :
    burst = <<r>> /\ \E e \in Entries(r) : e.end = "text" /\ e.val = "text"

\* C13: k >= 2 chat messages that arrived on a fully idle queue, each less than
\* BATCH_DELAY_MS after the previous one, with no typing signal and no call
\* outstanding, wait together in the batch buffer in arrival order and are
\* dispatched at most once, in one call whose messages are exactly the k
\* requests in arrival order; when that call returns a text the k-th request
\* is resolved with it and the others with the empty string.
C13_BurstInOneCall ==
  Len(burst) >= 2 =>
    /\ \A j, k \in DOMAIN burst : j < k => burst[j] < burst[k]
    /\ \A i \in DOMAIN calls :
         Range(calls[i].msgs) \cap Range(burst) # {} => calls[i].msgs = burst
    /\ \A r \in Range(burst) :
         /\ Dispatches(r) <= 1
         /\ ~Dispatched(r) => (messageBuffer = burst /\ queue = << >>)
         /\ \A e \in Entries(r) :
              /\ e.call = burst
              /\ e.end = "text" =>
                   /\ e.how = "resolve"
                   /\ e.val = IF r = Last(burst) THEN "text" ELSE "empty"

C13_Witness ==
  /\ Len(burst) >= 2
  /\ \E e \in Entries(burst[1]) : e.end = "text" /\ e.call = burst

\* C14: requests are dispatched in arrival order: the messages of a call are
\* in arrival order, and while a call that carries a request is outstanding no
\* request that arrived earlier is still waiting in the queue or the buffer.
C14_ArrivalOrder ==
  /\ \A i \in DOMAIN calls :
       LET m == calls[i].msgs
       IN  /\ \A j, k \in DOMAIN m : j < k => m[j] < m[k]
           /\ \A r2 \in Range(m) : \A r1 \in 1..(r2 - 1) :
                r1 \notin Range(queue) \cup Range(messageBuffer)
  /\ \A r2 \in Reqs : \A e \in Entries(r2) :
       /\ \A j, k \in DOMAIN e.call : j < k => e.call[j] < e.call[k]
       /\ \A r1 \in 1..(r2 - 1) :
            r1 \notin Range(queue) \cup Range(messageBuffer)

C14_Witness ==
  /\ settled[1] # << >>
  /\ \E i \in DOMAIN calls :
       2 \in Range(calls[i].msgs) /\ calls[i].msgs # settled[1][1].call

\* C18: no request is included in the messages of more than one backend call
\* over the whole execution, nor twice in the messages of one call.
C18_PayloadOnce ==
  \A r \in Reqs :
    /\ Dispatches(r) <= 1
    /\ \A i \in DOMAIN calls : Count(calls[i].msgs, r) <= 1
    /\ \A e \in Entries(r) : Count(e.call, r) = 1

C18_Witness ==
  /\ Len(calls) >= 2
  /\ \A r \in 1..MaxReqs : Dispatches(r) = 1

\* C19 (as claimed): whenever a backend call started by the queue has not
\* settled, the processing flag of the queue is true.
C19_ProcessingWhileInFlight == calls # << >> => processing

\* C20: the queue and the batch buffer are never both non-empty, and an
\* arrival that goes to the batch buffer empties the queue in the same step
\* and leaves the buffer holding the queued requests first, then the requests
\* already buffered, then the new request.
C20_SlotOrBuffer ==
  /\ [](queue = << >> \/ messageBuffer = << >>)
  /\ [][(enqueued' = enqueued + 1 /\ messageBuffer' # messageBuffer) =>
         /\ queue' = << >>
         /\ messageBuffer' = queue \o messageBuffer \o <<enqueued'>>]_vars

C20_Witness ==
  /\ Len(messageBuffer) >= 2
  /\ queue = << >>
  /\ initialDelayTimer # NULL
  /\ calls = << >>

\* C34: whenever the batch buffer holds a request, batchTimer is non-null and
\* the timeout it refers to is pending, so that its callback will dispatch or
\* reschedule the buffer.
C34_BufferHasTimer ==
  messageBuffer # << >> =>
    /\ batchTimer
    /\ \E i \in DOMAIN batchTimeouts : batchTimeouts[i].cur

C34_Witness ==
  /\ messageBuffer # << >>
  /\ users # {}
  /\ \E i \in DOMAIN batchTimeouts : batchTimeouts[i].cur /\ batchTimeouts[i].inner
  /\ \E j \in DOMAIN calls : TRUE

\* a request that arrived on the idle queue after every earlier request had
\* been settled, and waits in queue[]
ArrivedAfterOutcome(r) ==
  /\ r > 1
  /\ r \in Range(queue)
  /\ \A r1 \in 1..(r - 1) : settled[r1] # << >>

Held(q) ==
  Range(q.queue) \cup Range(q.messageBuffer)
    \cup UNION {Range(q.calls[i].msgs) : i \in DOMAIN q.calls}

\* the number of requests waiting in the queue and the buffer
Waiting(q) == Len(q.queue) + Len(q.messageBuffer)

\* C15: the manager keeps one queue per channel id: the queue of a channel is
\* created by the first message routed to that channel (and by nothing else),
\* is never dropped or replaced afterwards, and holds exactly the requests
\* routed to it; any step made for one channel id (arrival, timer firing,
\* typing start or stop, immediate, backend completion with its settlements)
\* leaves the queue and the typing state of every other channel id unchanged.
C15_ChannelsIsolated ==
  [][\A c \in ChannelIds :
       /\ StepOf(c) =>
            \A d \in ChannelIds \ {c} :
              queues'[d] = queues[d] /\ typingStates'[d] = typingStates[d]
       /\ queues[c].exists => queues'[c].exists
       /\ (~queues[c].exists /\ queues'[c].exists) =>
            /\ enqueued' = enqueued + 1
            /\ Held(queues'[c]) = {enqueued'}
       /\ (queues[c].exists /\ enqueued' = enqueued + 1 /\ queues'[c] # queues[c]) =>
            Held(queues'[c]) = Held(queues[c]) \cup {enqueued'}]_vars

C15_Witness ==
  /\ queues["A"].calls # << >>
  /\ queues["B"].messageBuffer # << >>
  /\ typingStates["B"].users # {}
  /\ ~queues["A"].isTypingActive
  /\ queues["B"].isTypingActive

\* the system queue has nothing waiting and nothing running
SystemQueueIdle ==
  /\ queues[SystemId].queue = << >>
  /\ ~queues[SystemId].processing

\* C16: timer heartbeats and member joins are held by the queue "__system__"
\* only and chat messages never by it; every call of that queue carries a
\* single event and its batch buffer stays empty; the arrival of a heartbeat
\* or a member join changes no chat queue and no typing state, and a heartbeat
\* that arrives while the system queue is idle is in a call of its own at the
\* end of the arrival step.
C16_SystemQueue ==
  /\ [](\A c \in ChannelIds : \A r \in Held(queues[c]) :
          (event[r] = "chat") <=> (c \in ChatChannels))
  /\ [](/\ queues[SystemId].messageBuffer = << >>
        /\ \A i \in DOMAIN queues[SystemId].calls :
             Len(queues[SystemId].calls[i].msgs) = 1)
  /\ [][(ManagerEnqueueTimerMessage \/ ManagerEnqueueMemberJoinMessage) =>
         /\ \A c \in ChatChannels : queues'[c] = queues[c]
         /\ typingStates' = typingStates
         /\ enqueued' \in Held(queues'[SystemId])
         /\ (ManagerEnqueueTimerMessage /\ SystemQueueIdle) =>
              /\ queues'[SystemId].calls # << >>
              /\ Last(queues'[SystemId].calls).msgs = <<enqueued'>>
              /\ queues'[SystemId].queue = << >>]_vars

C16_Witness ==
  /\ \E r \in Reqs : event[r] = "timer" /\ settled[r] # << >>
  /\ \E c \in ChatChannels : queues[c].messageBuffer # << >>

\* C17: when AGENT_ID is not set, every dispatch (single chat message, batch,
\* timer heartbeat, member join) resolves all its requests with the empty
\* string without formatting or sending anything, none is rejected, and a
\* queue with no dispatch outstanding is not left processing, so that it
\* dispatches later arrivals.
C17_NoAgentResolvesEmpty ==
  ~AGENT_ID =>
    /\ \A r \in Reqs : \A e \in Entries(r) :
         /\ e.how = "resolve" /\ e.val = "empty" /\ e.end = "noAgent"
         /\ \A m \in Range(e.call) : settled[m] # << >>
    /\ \A c \in ChannelIds : queues[c].calls = << >> => ~queues[c].processing

C17_Witness ==
  /\ ~AGENT_ID
  /\ \A r \in 1..MaxReqs : settled[r] # << >>
  /\ event[1] = "timer"
  /\ \E r \in Reqs : r > 1 /\ event[r] = "timer" /\ settled[r][1].call # settled[1][1].call

\* C33: in the queue "__system__" at most one call is outstanding and it
\* carries one event; the events still queued are in arrival order, arrived
\* after the event in flight and are not settled; and an event is in a call
\* or settled only when every event that arrived before it has been settled.
C33_SystemEventsInOrder ==
  LET q == queues[SystemId]
      isSystem(r) == r <= enqueued /\ event[r] # "chat"
      started(r) == settled[r] # << >> \/
                    \E i \in DOMAIN q.calls : r \in Range(q.calls[i].msgs)
  IN  /\ Len(q.calls) <= 1
      /\ \A i \in DOMAIN q.calls :
           /\ Len(q.calls[i].msgs) = 1
           /\ \A k \in DOMAIN q.queue : q.calls[i].msgs[1] < q.queue[k]
      /\ \A k, j \in DOMAIN q.queue : k < j => q.queue[k] < q.queue[j]
      /\ \A k \in DOMAIN q.queue : settled[q.queue[k]] = << >>
      /\ \A r1, r2 \in Reqs :
           (isSystem(r1) /\ isSystem(r2) /\ r1 < r2 /\ started(r2)) =>
             settled[r1] # << >>

C33_Witness ==
  /\ event[1] = "join"
  /\ event[2] = "timer"
  /\ queues[SystemId].queue = <<2>>
  /\ Len(queues[SystemId].calls) = 1
  /\ queues[SystemId].calls[1].msgs = <<1>>

\* C35: every queue that exists, lazily created or notified by any sequence of
\* typing starts and stops of any users, has isTypingActive equal to
\* isChannelTyping of its channel.
C35_CachedTypingInSync ==
  \A c \in ChannelIds :
    queues[c].exists => (queues[c].isTypingActive <=> ChannelTyping(c))

\* the queue of A was created while two users were typing, and one of them
\* has stopped since
C35_Witness ==
  /\ queues["A"].exists
  /\ queues["A"].isTypingActive
  /\ typingStates["A"].users = {2}
  /\ queues["A"].messageBuffer # << >>
  /\ queues["B"].exists
  /\ typingStates["B"].stopped
  /\ ~queues["B"].isTypingActive

\* ======================= properties: abort-and-rebatch queue ===============
\* C7 (as claimed): when an in-flight call ends with a cancellation error none
\* of its requests is settled at that point, they are put back at the front of
\* the batch buffer in their order, and each of them is settled later.
C7_CancelledRequeuedAndSettled ==
  /\ [][\A i \in DOMAIN calls :
          AbortedCallSettles(i) =>
            /\ settled' = settled
            /\ messageBuffer' = calls[i].msgs \o messageBuffer]_vars
  /\ \A r \in Reqs : (r \in rebatched) ~> (settled[r] # << >>)

\* C21 (as claimed): whenever a chat message arrives while the in-flight flag
\* is set, also while the payload of the call is still being formatted, every
\* call that has not settled is cancelled by the arrival.
C21_ArrivalCancelsInFlight ==
  [][\A t \in MessageTypes :
       (processing /\ EnqueueAbort(t)) =>
         \A i \in DOMAIN calls' : calls'[i].aborted]_vars

\* C22: abort is invoked only while the call owning the controller has not
\* settled, and one call at most owns the controller; the requests of a
\* cancelled call are put back exactly once, however many messages arrived
\* while it was in flight (each of them is then once in the batch buffer and
\* nowhere else), and no request is settled more than once.
C22_AbortOnceRebufferOnce ==
  /\ [][\A i \in DOMAIN calls :
          AbortedCallSettles(i) =>
            \A r \in Range(calls[i].msgs) :
              Count(messageBuffer', r) = 1 /\ Count(messageBuffer, r) = 0]_vars
  /\ [](/\ currentAbortController => \E i \in DOMAIN calls : calls[i].ctl
        /\ Cardinality({i \in DOMAIN calls : calls[i].ctl}) <= 1
        /\ \A i \in DOMAIN calls : calls[i].aborted => calls[i].stage = "backend"
        /\ \A r \in Reqs : Count(messageBuffer, r) <= 1 /\ Len(settled[r]) <= 1)

C22_Witness ==
  /\ rebatched = {1}
  /\ messageBuffer = <<1, 2, 3>>
  /\ calls = << >>

\* C29 (as claimed): whenever the requests of a cancelled call are put back
\* into the batch buffer, a batch timeout is pending at that moment, so that
\* the buffer is dispatched without any further arrival.
C29_RebufferedHaveTimer ==
  [][\A i \in DOMAIN calls :
       (AbortedCallSettles(i) /\ PutBack(calls[i]) # << >>) =>
         batchTimer' /\ batchTimeouts' # << >>]_vars

\* ======================= properties: "__system__" queue, abort variant ======
\* C30: the arrival of a timer heartbeat or of a member join while a call is
\* in flight leaves the calls (none is aborted, none is started), the batch
\* buffer and the batch timer as they are and appends the event to the FIFO
\* queue; at most one call is in flight, and the event in flight arrived
\* before every event still queued, which are queued in arrival order.
C30_SystemEventWaits ==
  /\ [][\A what \in {"timer", "join"} :
          (calls # << >> /\ EnqueueSystemAbort(what)) =>
            /\ calls' = calls
            /\ messageBuffer' = messageBuffer
            /\ batchTimer' = batchTimer
            /\ batchTimeouts' = batchTimeouts
            /\ currentAbortController' = currentAbortController
            /\ queue' = Append(queue, enqueued')]_vars
  /\ [](/\ Len(calls) <= 1
        /\ \A i \in DOMAIN calls : ~calls[i].aborted
        /\ \A i \in DOMAIN calls : \A k \in DOMAIN queue : calls[i].msgs[1] < queue[k]
        /\ \A k \in DOMAIN queue : \A j \in DOMAIN queue : k < j => queue[k] < queue[j]
        /\ \A k \in DOMAIN queue : settled[queue[k]] = << >>)

C30_Witness ==
  /\ Len(calls) = 1
  /\ calls[1].msgs = <<2>>
  /\ settled[1] # << >>
  /\ queue = <<3>>
  /\ event[2] = "join"

\* ======================= properties: shared queue of messages.ts ===========
\* C23 (as claimed): no two backend calls of the shared queue are outstanding
\* at the same time.
C23_SharedOneInFlight == \A i, j \in DOMAIN calls : i = j

\* C28 (as claimed): when the cancellation of an aborted call is handled,
\* every request of the call, a timer heartbeat included, is in the batch
\* buffer; and every request of an aborted call is eventually settled.
C28_AbortedRebufferedAndSettled ==
  /\ [][\A i \in DOMAIN calls :
          AbortedCallSettlesShared(i) =>
            \A r \in Range(calls[i].msgs) : Count(messageBuffer', r) = 1]_vars
  /\ \A r \in Reqs :
       (\E i \in DOMAIN calls : calls[i].aborted /\ r \in Range(calls[i].msgs))
         ~> (settled[r] # << >>)

C25_InfiniteWhileTyping ==
  /\ (~typingStateExists \/ lastTypingStop = NULL \/ users # {}) =>
       GetTimeSinceLastTypingStop = Infinity
  /\ GetTimeSinceLastTypingStop # Infinity =>
       (typingStateExists /\ lastTypingStop # NULL /\ users = {})

\* ======================= properties: processStream =========================
\* r is s without its leading and trailing whitespace
IsTrimOf(r, s) ==
  \E a \in 0..Len(s) :
    /\ a + Len(r) <= Len(s)
    /\ r = SubSeq(s, a + 1, a + Len(r))
    /\ \A k \in 1..Len(s) : (k <= a \/ k > a + Len(r)) => s[k] \in Whitespace
    /\ r # << >> => (r[1] \notin Whitespace /\ r[Len(r)] \notin Whitespace)

\* the texts of a sequence of texts, one after the other
Concatenation(texts) == Join(texts, << >>)

\* whether the chunk is a send_response tool call that responds
Responds(c) ==
  /\ c.message_type = "tool_call_message"
  /\ c.name = "send_response"
  /\ c.arguments
  /\ c.is_responding

\* the content of an assistant message, its parts put together with nothing
\* between them
ContentConcatenated(c) ==
  IF c.message_type = "assistant_message" THEN Join(c.content, << >>)
  ELSE IF Responds(c) THEN c.message
  ELSE << >>

\* the content of an assistant message, the parts of an array-valued content
\* separated by blank lines
ContentJoined(c) ==
  IF c.message_type = "assistant_message" THEN Join(c.content, BlankLine)
  ELSE IF Responds(c) THEN c.message
  ELSE << >>

\* C26 (as claimed): what processStream returns is the whitespace-trimmed
\* concatenation, in stream order, of the content of the assistant messages
\* and of the messages of the responding send_response calls.
C26_StreamConcatenation ==
  streamResult.done =>
    IsTrimOf(streamResult.text,
             Concatenation([i \in DOMAIN stream |-> ContentConcatenated(stream[i])]))

\* C26 (amended): what processStream returns is the whitespace-trimmed
\* concatenation, in stream order, of the content of the assistant messages
\* (the parts of an array-valued content joined by blank lines) and of the
\* messages of the responding send_response calls; every other chunk
\* contributes nothing, and an accumulation with nothing but whitespace gives
\* the empty text.
C26_StreamConcatenationJoined ==
  streamResult.done =>
    IsTrimOf(streamResult.text,
             Concatenation([i \in DOMAIN stream |-> ContentJoined(stream[i])]))

C26_Witness ==
  /\ streamResult.done
  /\ Len(stream) = MaxChunks
  /\ stream[1].message_type = "assistant_message"
  /\ stream[1].array
  /\ Len(stream[1].content) > 1
  /\ Responds(stream[2])
  /\ streamResult.text # agentMessageResponse
  /\ streamResult.text # << >>

\* ======================= properties: processBatch payload ==================
\* the positions of the requests of the batch that are not timer heartbeats
Contributing == SelectSeq([i \in DOMAIN batch |-> i], LAMBDA i : batch[i] # "timer")

\* C27: the payload sent for a batch holds the texts of its requests other
\* than timer heartbeats, in buffer order: a single text is sent as it is; N
\* texts with N > 1 are sent as the marker for N, a blank line, and the N
\* texts with a blank line between neighbours; N is the number of requests of
\* the batch when the batch holds no timer heartbeat.
C27_BatchPayload ==
  combinedContent.sent =>
    LET texts == Contributing
        N == Len(texts)
        content == combinedContent.content
    IN  /\ N >= 1
        /\ N = 1 => content = <<Text(texts[1])>>
        /\ N > 1 =>
             /\ Len(content) = 2 * N + 1
             /\ content[1] = Marker(N)
             /\ \A k \in 1..N :
                  /\ content[2 * k] = Separator
                  /\ content[2 * k + 1] = Text(texts[k])
        /\ (\A i \in DOMAIN batch : batch[i] # "timer") => N = Len(batch)

C27_Witness ==
  /\ combinedContent.sent
  /\ Len(batch) = MaxBatch
  /\ batch[2] = "timer"
  /\ Len(combinedContent.content) > 1

\* the texts the passes over the stream append, concatenated
WholeText ==
  Concatenation([i \in DOMAIN stream |-> Appended(stream[i])])

\* what processStream returns when nothing is rethrown: it has read every
\* chunk and returns the trimmed text of all of them
ReturnsWholeText ==
  /\ streamResult.error = "none"
  /\ chunksRead = Len(stream)
  /\ IsTrimOf(streamResult.text, WholeText)

\* C32 (as claimed): whatever the side effects of the set_status tool calls
\* did, processStream reads the whole stream and returns the text of all its
\* chunks; the only error it rejects with is the error of the stream iteration.
C32_OnlyIterationFailurePropagated ==
  streamResult.done =>
    \/ ReturnsWholeText
    \/ streamResult.error = "StreamError"

\* C32 (amended): whatever the side effects of the set_status tool calls did,
\* processStream reads the whole stream and returns the text of all its chunks;
\* it rejects only with the error of the stream iteration or with the error of
\* JSON.parse on the arguments of the set_status or send_response tool call it
\* was handling.
C32_SideEffectFailureNotPropagated ==
  streamResult.done =>
    \/ ReturnsWholeText
    \/ streamResult.error = "StreamError"
    \/ /\ streamResult.error = "SyntaxError"
       /\ chunksRead < Len(stream)
       /\ ParsedToolCall(stream[chunksRead + 1])
       /\ stream[chunksRead + 1].malformed

\* setActivity threw for the first chunk, the write of saveStatus failed for
\* the second, and the text of the third chunk was returned
C32_Witness ==
  /\ Len(stream) = 3
  /\ stream[1].name = "set_status" /\ stream[1].message = <<"a">>
  /\ stream[2].name = "set_status" /\ stream[2].message = <<"a", "a">>
  /\ stream[3].message_type = "assistant_message"
  /\ status = [set |-> TRUE, text |-> <<"a", "a">>, saved |-> FALSE, savedText |-> << >>]
  /\ streamResult = [done |-> TRUE, text |-> <<"a">>, error |-> "none"]

\* C39: truncateMessage(message, 100) returns the message itself when it has at
\* most 100 characters, and otherwise its first 97 characters followed by
\* "..."; the result never has more than 100 characters.
C39_TruncatedToHundred ==
  truncation.done =>
    LET m == truncation.message
        result == truncation.result
    IN  /\ Len(m) <= 100 => result = m
        /\ Len(m) > 100 =>
             /\ Len(result) = 100
             /\ \A i \in 1..97 : result[i] = m[i]
             /\ \A i \in 98..100 : result[i] = "."
        /\ Len(result) <= 100

\* a message of 101 characters has been cut
C39_Witness ==
  /\ truncation.done
  /\ Len(truncation.message) = 101
  /\ truncation.result # truncation.message
  /\ truncation.result[97] = "a"
  /\ truncation.result[96] = "b"

\* the conversations the backend has created for the channel
ConversationsOf(c) ==
  {i \in DOMAIN conversationMappings.conversations :
     conversationMappings.conversations[i] = c}

\* C38: whatever the interleaving of the calls of getOrCreateConversation, no
\* channel has more than one conversation created for it, all calls for a
\* channel that have returned have returned the same id, and the entry of a
\* channel in mappings, once there, never changes.
C38_OneConversationPerChannel ==
  /\ [](\A c \in ConversationChannels : Cardinality(ConversationsOf(c)) <= 1)
  /\ [](\A k1, k2 \in Callers :
          LET c1 == conversationMappings.callers[k1]
              c2 == conversationMappings.callers[k2]
          IN  (c1.pc = "returned" /\ c2.pc = "returned" /\ c1.channelId = c2.channelId)
                => c1.id = c2.id)
  /\ [][\A c \in ConversationChannels :
          conversationMappings.mappings[c] # 0 =>
            conversationMappings'.mappings[c] = conversationMappings.mappings[c]]_vars

\* C37: once startRandomEventTimer has run with the feature enabled, exactly
\* one of these holds at any time: a heartbeat timeout is pending, the callback
\* of the one that fired is still running, or the one-second timeout that
\* schedules the next heartbeat is pending - so every firing is followed by
\* the next heartbeat timeout.
C37_NextHeartbeatScheduled ==
  (eventTimer.started /\ eventTimer.ENABLE_TIMER) =>
    Cardinality({x \in {"delay", "callback", "restart"} :
                   \/ x = "delay" /\ eventTimer.delay # NULL
                   \/ x = "callback" /\ eventTimer.callback # "none"
                   \/ x = "restart" /\ eventTimer.restart}) = 1

\* C36: for every channel and user at most one stop timeout is pending, and
\* one is pending exactly while the user is in the channel's typing set; the
\* timeout that fires does so 10 s after the latest TypingStart of the pair;
\* every user who is typing is eventually removed from the set, and once the
\* TypingStart events have ceased every typing set becomes and stays empty.
C36_TypingStopFollowsStart ==
  /\ [](\A c \in ChatChannels : \A u \in Typers :
          /\ Len(typingTimeouts.timers[<<c, u>>]) <= 1
          /\ typingTimeouts.map[<<c, u>>] <=> typingTimeouts.timers[<<c, u>>] # << >>
          /\ u \in typingStates[c].users <=> typingTimeouts.timers[<<c, u>>] # << >>)
  /\ [][\A c \in ChatChannels : \A u \in Typers :
          \A i \in DOMAIN typingTimeouts.timers[<<c, u>>] :
            TypingTimeoutFires(c, u, i) =>
              /\ typingTimeouts.since[<<c, u>>] = TYPING_TIMEOUT
              /\ u \notin typingStates'[c].users]_vars
  /\ \A c \in ChatChannels : \A u \in Typers :
       (u \in typingStates[c].users) ~> (u \notin typingStates[c].users)
  /\ <>[](\A c \in ChatChannels : typingStates[c].users = {})

\* user 1 typed in channel A, typed again before the timeout, and the set was
\* emptied by the timeout 10 s after the second event; user 2 has typed since
C36_Witness ==
  /\ typingTimeouts.events = 3
  /\ typingStates["A"].stopped
  /\ typingTimeouts.since[<<"A", 1>>] = TYPING_TIMEOUT
  /\ ~typingTimeouts.map[<<"A", 1>>]
  /\ typingStates["A"].users = {2}
  /\ typingTimeouts.timers[<<"A", 2>>] = <<7>>
  /\ typingStates["B"].users = {}
  /\ ~typingStates["B"].exists

====
